---- MODULE Spec2Model ----
(***************************************************************************)
(* Verification model of jnd-labs/aiblackbox: the audit worker and its     *)
(* hash chain (internal/audit/worker.go), the journal store                *)
(* (internal/audit FileStorage), the verifier (cmd/verify), the response   *)
(* capturer (internal/proxy/response_capturer.go) and the proxy handler    *)
(* (internal/proxy handler).                                               *)
(*                                                                         *)
(* Strings are TLA+ strings; byte slices that the code cuts (the capture   *)
(* mirror) are sequences of one-character strings.  SHA-256 is idealised   *)
(* as an injective function of its input bytes: Sha256(s) wraps s.         *)
(***************************************************************************)
EXTENDS Integers, Sequences, FiniteSets, TLC

(***************************************************************************)
(* Bounds of the model.                                                    *)
(***************************************************************************)
\* sequence IDs that producers may log are 0..MaxSeq
MaxSeq == 4
\* capacity of the worker's entries channel (bufferSize of NewWorker)
BufferSize == 1
\* scaled-down value of Worker.maxPendingEntries (1000 in worker.go:45; the
\* tests lower it the same way, worker_test.go:158)
MaxPendingEntries == 3

\* calls of storage.Write that fail in one run of the worker
MaxFaults == 1
\* requests the proxy handler serves
NumRequests == 2
\* calls of Write the upstream side makes for one response
MaxWrites == 2
\* streaming.max_audit_body_size of the configuration, in bytes
MaxAuditBodySize == 3

SeqIDs == 0..MaxSeq

\* sequence IDs logged to the worker on a healthy store are 0..MaxLateSeq: enough
\* for one entry to arrive after a fail-open write and its successor after it
MaxLateSeq == 5

LateSeqIDs == 0..MaxLateSeq

\* how many times the process is started again on the same journal file
MaxRestarts == 1

Requests == 1..NumRequests

\* the request whose capture is followed through every failure of its
\* client (a write error, a disconnect, the deadline); the captures of
\* different requests share nothing but the sequence counter and the audit
\* channel, which concurrent requests exercise in SpecSeq
FaultyRequests == {1}

Min(a, b) == IF a < b THEN a ELSE b

(***************************************************************************)
(* Data model: models.AuditEntry, models.TraceContext.                     *)
(***************************************************************************)
NoToolCall == [present |-> FALSE, ID |-> "", Type |-> "", Name |-> "", ArgumentsHash |-> ""]
NoToolResult == [present |-> FALSE, ToolCallID |-> "", ContentHash |-> "", IsError |-> FALSE]
\* a nil *TraceContext
NoTrace == [present |-> FALSE, TraceID |-> "", SpanID |-> "", ParentSpanID |-> "",
            SpanType |-> "", SpanName |-> "", ToolCall |-> NoToolCall, ToolResult |-> NoToolResult]

PlainTrace == [NoTrace EXCEPT !.present = TRUE, !.TraceID = "t", !.SpanID = "s",
                              !.SpanType = "FINAL_RESPONSE", !.SpanName = "final_response"]
ToolCallTrace == [PlainTrace EXCEPT !.SpanType = "TOOL_CALL", !.SpanName = "f",
                    !.ToolCall = [present |-> TRUE, ID |-> "c", Type |-> "function",
                                  Name |-> "f", ArgumentsHash |-> "g"]]
ToolResultTrace == [PlainTrace EXCEPT !.SpanType = "TOOL_RESULT", !.SpanName = "tool_error",
                    !.ToolResult = [present |-> TRUE, ToolCallID |-> "c",
                                    ContentHash |-> "k", IsError |-> TRUE]]

\* the fields of an entry that a producer fills in before Log; Timestamp is
\* in tenths of a second (the code's clock has nanoseconds)
PlainPayload == [Timestamp |-> 10, Endpoint |-> "a", ReqBody |-> "b", RespBody |-> "c",
                 StatusCode |-> 200, Error |-> "", IsComplete |-> TRUE, IsStreaming |-> FALSE,
                 Truncated |-> FALSE, TruncatedAtBytes |-> 0, Trace |-> NoTrace]
TracePayload == [PlainPayload EXCEPT !.Timestamp = 15, !.Trace = PlainTrace]
ToolCallPayload == [PlainPayload EXCEPT !.Trace = ToolCallTrace]
\* a body that is not valid UTF-8: "c" and the first two bytes E2 82 of a
\* three-byte rune (a binary body, or a body cut inside a rune)
CutRuneBody == "c[E2][82]"
BinaryPayload == [PlainPayload EXCEPT !.RespBody = CutRuneBody]
ToolResultPayload == [PlainPayload EXCEPT !.StatusCode = 502, !.Error = "CLIENT_DISCONNECT",
                                          !.IsComplete = FALSE, !.IsStreaming = TRUE,
                                          !.Trace = ToolResultTrace]
\* the payloads by name
PayloadNames == {"plain", "trace", "toolcall", "toolresult", "binary"}

Payload(name) ==
    CASE name = "trace" -> TracePayload
      [] name = "toolcall" -> ToolCallPayload
      [] name = "toolresult" -> ToolResultPayload
      [] name = "binary" -> BinaryPayload
      [] OTHER -> PlainPayload

\* models.AuditEntry as the worker sees it
AuditEntry(seq, p) ==
    [SequenceID |-> seq, Timestamp |-> p.Timestamp, Endpoint |-> p.Endpoint,
     ReqBody |-> p.ReqBody, RespBody |-> p.RespBody, StatusCode |-> p.StatusCode,
     Error |-> p.Error, IsComplete |-> p.IsComplete, IsStreaming |-> p.IsStreaming,
     Truncated |-> p.Truncated, TruncatedAtBytes |-> p.TruncatedAtBytes,
     Trace |-> p.Trace, PrevHash |-> "", Hash |-> ""]

(***************************************************************************)
(* Hash chain kernel, writer side (worker.go).                             *)
(***************************************************************************)
\* hex(SHA-256(s)), idealised: injective, never the empty string
Sha256(s) == "<" \o s \o ">"

\* time.Time.Format("2006-01-02T15:04:05.999999999Z07:00"): the fraction is
\* printed without trailing zeros and omitted when it is zero
FormatTime(t) ==
    "T" \o ToString(t \div 10) \o
    (IF t % 10 = 0 THEN "" ELSE "." \o ToString(t % 10)) \o "Z"

\* strconv.Itoa, and fmt's %d in the verifier
Itoa(n) == ToString(n)

\* strconv.FormatBool
FormatBool(b) == IF b THEN "true" ELSE "false"

computeHash(entry) ==
    Sha256(FormatTime(entry.Timestamp) \o entry.Endpoint \o entry.ReqBody \o
           entry.RespBody \o Itoa(entry.StatusCode) \o entry.Error \o
           FormatBool(entry.IsComplete) \o entry.PrevHash)

GenesisSeed == "seed"

computeGenesisHash(seed) == Sha256("genesis:" \o seed)

(***************************************************************************)
(* Journal store (FileStorage).  The file is a sequence of lines; a line   *)
(* is the JSON record of an entry, an unparseable line, or a fragment      *)
(* without its newline left behind by a failed write.                      *)
(***************************************************************************)
\* "write": file.Write fails after some bytes of the record, "nowrite": it
\* fails before any byte
FaultKinds == {"ok", "marshal", "write", "nowrite", "sync"}

\* Bytes in a string: an ASCII character is written as itself, any other
\* byte as "[HH]" with its two hexadecimal digits; "[FFFD]" is U+FFFD.
HexDigits == {"0", "1", "2", "3", "4", "5", "6", "7", "8", "9", "A", "B", "C", "D", "E", "F"}

\* the bytes whose first digit is in high and whose second digit is in low
BytesOf(high, low) == {"[" \o h \o l \o "]" : h \in high, l \in low}

\* the bytes 0x80..0xFF
HighBytes == BytesOf({"8", "9", "A", "B", "C", "D", "E", "F"}, HexDigits)

\* the continuation bytes 0x80..0xBF
ContinuationBytes == BytesOf({"8", "9", "A", "B"}, HexDigits)

\* the bytes that start a rune of two, three and four bytes (unicode/utf8:
\* 0xC2..0xDF, 0xE0..0xEF, 0xF0..0xF4)
LeadBytes2 == BytesOf({"C", "D"}, HexDigits) \ {"[C0]", "[C1]"}
LeadBytes3 == BytesOf({"E"}, HexDigits)
LeadBytes4 == {"[F0]", "[F1]", "[F2]", "[F3]", "[F4]"}

\* the bytes that may follow a lead byte (unicode/utf8 acceptRanges)
SecondBytes(lead) ==
    CASE lead = "[E0]" -> BytesOf({"A", "B"}, HexDigits)
      [] lead = "[ED]" -> BytesOf({"8", "9"}, HexDigits)
      [] lead = "[F0]" -> BytesOf({"9", "A", "B"}, HexDigits)
      [] lead = "[F4]" -> BytesOf({"8"}, HexDigits)
      [] OTHER -> ContinuationBytes

\* sixteen characters that are no part of a byte, put before and behind a
\* string so that the four bytes around every position can be read
Padding == "                "

\* utf8.DecodeRuneInString at position i of s: the number of bytes of the
\* rune of two to four bytes that starts there, 0 when none does (the
\* decoder then returns an ASCII character, or RuneError and 1)
RuneBytes(s, i) ==
    LET lead == SubSeq(s, i, i + 3)
        need == IF lead \in LeadBytes2 THEN 2
                ELSE IF lead \in LeadBytes3 THEN 3
                ELSE IF lead \in LeadBytes4 THEN 4
                ELSE 0
    IN  IF /\ need > 0
           /\ SubSeq(s, i + 4, i + 7) \in SecondBytes(lead)
           /\ \A k \in 2..(need - 1) : SubSeq(s, i + 4 * k, i + 4 * k + 3) \in ContinuationBytes
        THEN need ELSE 0

\* the byte at position i is part of a valid UTF-8 sequence: a rune starts
\* at it, or at one of the three bytes before it and reaches it (a lead
\* byte is no continuation byte, so the decoder, which goes on behind every
\* rune it has read, is at the start of each of them)
InRune(s, i) ==
    \/ RuneBytes(s, i) > 0
    \/ \E k \in 1..3 : RuneBytes(s, i - 4 * k) > k

\* encoding/json on the character at position i of s: a byte 0x80..0xFF
\* that is not part of a valid UTF-8 sequence is written as U+FFFD, every
\* other byte as it is (a control character is escaped and comes back as it
\* was); the characters behind the "[" of a byte are written with it
MarshalAt(s, i) ==
    IF SubSeq(s, i, i + 3) \in HighBytes
    THEN IF InRune(s, i) THEN SubSeq(s, i, i + 3) ELSE "[FFFD]"
    ELSE IF \E k \in 1..3 : SubSeq(s, i - k, i - k + 3) \in HighBytes THEN ""
    ELSE SubSeq(s, i, i)

\* the same for the characters lo..hi of s, one half after the other
RECURSIVE MarshalRange(_, _, _)
MarshalRange(s, lo, hi) ==
    IF lo > hi THEN ""
    ELSE IF lo = hi THEN MarshalAt(s, lo)
    ELSE MarshalRange(s, lo, (lo + hi) \div 2) \o MarshalRange(s, (lo + hi) \div 2 + 1, hi)

\* json.Marshal of a string followed by json.Unmarshal
ToValidUTF8(str) ==
    MarshalRange(Padding \o str \o Padding, Len(Padding) + 1, Len(Padding) + Len(str))

\* json.Marshal of an entry followed by what json.Unmarshal into the
\* verifier's LogEntry gives back: the time as its RFC3339Nano text, the
\* hashed strings as valid UTF-8, the trace when it is not nil
MarshalJSON(entry) ==
    [kind |-> "json", SequenceID |-> entry.SequenceID,
     Timestamp |-> FormatTime(entry.Timestamp), Endpoint |-> ToValidUTF8(entry.Endpoint),
     ReqBody |-> ToValidUTF8(entry.ReqBody), RespBody |-> ToValidUTF8(entry.RespBody),
     StatusCode |-> entry.StatusCode, Error |-> ToValidUTF8(entry.Error),
     IsComplete |-> entry.IsComplete, Trace |-> entry.Trace,
     PrevHash |-> entry.PrevHash, Hash |-> entry.Hash]

\* a line that json.Unmarshal rejects
GarbageLine ==
    [kind |-> "garbage", SequenceID |-> 0, Timestamp |-> "", Endpoint |-> "",
     ReqBody |-> "", RespBody |-> "", StatusCode |-> 0, Error |-> "",
     IsComplete |-> FALSE, Trace |-> NoTrace, PrevHash |-> "", Hash |-> ""]

\* bytes of a record without the terminating newline (a short write)
PartialLine == [GarbageLine EXCEPT !.kind = "partial"]

\* file.Write on a file opened with O_APPEND: bytes written after a fragment
\* continue the fragment's line
FileAppend(file, line) ==
    IF file # <<>> /\ file[Len(file)].kind = "partial"
    THEN [file EXCEPT ![Len(file)] = IF line.kind = "partial" THEN PartialLine ELSE GarbageLine]
    ELSE Append(file, line)

\* FileStorage.Write: marshal, append the line and its newline, fsync
StorageWrite(file, entry, fault) ==
    CASE fault = "marshal" -> [file |-> file, ok |-> FALSE]
      [] fault = "nowrite" -> [file |-> file, ok |-> FALSE]
      [] fault = "write"   -> [file |-> FileAppend(file, PartialLine), ok |-> FALSE]
      [] fault = "sync"    -> [file |-> FileAppend(file, MarshalJSON(entry)), ok |-> FALSE]
      [] OTHER             -> [file |-> FileAppend(file, MarshalJSON(entry)), ok |-> TRUE]

(***************************************************************************)
(* Verifier (cmd/verify).                                                  *)
(***************************************************************************)
ExitSuccess == 0
ExitChainBroken == 2
ExitDataTampered == 3
ExitParseError == 4
ExitScanError == 5
\* the verifier has not exited yet
Running == -1
\* verifyLog aborts when errorCount > MaxParseErrors
MaxParseErrors == 10

\* a line longer than the scanner's buffer (maxScanTokenSize)
OversizeLine == [GarbageLine EXCEPT !.kind = "oversize"]

\* the bytes calculateHash writes for entry.Trace
TraceBytes(t) ==
    IF ~t.present THEN ""
    ELSE t.TraceID \o t.SpanID \o t.ParentSpanID \o t.SpanType \o t.SpanName \o
         (IF t.ToolCall.present
          THEN t.ToolCall.ID \o t.ToolCall.Type \o t.ToolCall.Name \o t.ToolCall.ArgumentsHash
          ELSE "") \o
         (IF t.ToolResult.present
          THEN t.ToolResult.ToolCallID \o t.ToolResult.ContentHash \o
               (IF t.ToolResult.IsError THEN "true" ELSE "false")
          ELSE "")

\* calculateHash of the verifier, on a parsed line
calculateHash(entry) ==
    Sha256(entry.Timestamp \o entry.Endpoint \o entry.ReqBody \o entry.RespBody \o
           Itoa(entry.StatusCode) \o entry.Error \o
           (IF entry.IsComplete THEN "true" ELSE "false") \o
           TraceBytes(entry.Trace) \o entry.PrevHash)

\* the verifier's local state at the start of verifyLog
VerifierStart == [expectedPrevHash |-> "", lineNum |-> 0, errorCount |-> 0, exit |-> Running]

\* the scan loop body that gives up at MaxParseErrors unparseable lines
\* and forgets the expected previous hash on an unparseable line
verifyLineStrict(v, line) ==
    IF v.exit # Running THEN v
    ELSE IF line.kind = "oversize" THEN [v EXCEPT !.exit = ExitScanError]
    ELSE LET v1 == [v EXCEPT !.lineNum = @ + 1] IN
         IF line.kind # "json"
         THEN IF v1.errorCount + 1 >= MaxParseErrors
              THEN [v1 EXCEPT !.errorCount = @ + 1, !.exit = ExitParseError]
              ELSE [v1 EXCEPT !.errorCount = @ + 1, !.expectedPrevHash = ""]
         ELSE IF v1.expectedPrevHash # "" /\ line.PrevHash # v1.expectedPrevHash
              THEN [v1 EXCEPT !.exit = ExitChainBroken]
         ELSE IF calculateHash(line) # line.Hash
              THEN [v1 EXCEPT !.exit = ExitDataTampered]
         ELSE [v1 EXCEPT !.expectedPrevHash = line.Hash]

\* the scan loop body with the hash check made before the chain check
verifyLineHashFirst(v, line) ==
    IF v.exit # Running THEN v
    ELSE IF line.kind = "oversize" THEN [v EXCEPT !.exit = ExitScanError]
    ELSE LET v1 == [v EXCEPT !.lineNum = @ + 1] IN
         IF line.kind # "json"
         THEN IF v1.errorCount + 1 > MaxParseErrors
              THEN [v1 EXCEPT !.errorCount = @ + 1, !.exit = ExitParseError]
              ELSE [v1 EXCEPT !.errorCount = @ + 1]
         ELSE IF calculateHash(line) # line.Hash
              THEN [v1 EXCEPT !.exit = ExitDataTampered]
         ELSE IF v1.expectedPrevHash # "" /\ line.PrevHash # v1.expectedPrevHash
              THEN [v1 EXCEPT !.exit = ExitChainBroken]
         ELSE [v1 EXCEPT !.expectedPrevHash = line.Hash]

\* a scan loop body that requires the first entry to continue the genesis
\* hash of the configured seed
verifyLineFromGenesis(v, line) ==
    IF v.exit # Running THEN v
    ELSE IF line.kind = "oversize" THEN [v EXCEPT !.exit = ExitScanError]
    ELSE LET v1 == [v EXCEPT !.lineNum = @ + 1] IN
         IF line.kind # "json"
         THEN IF v1.errorCount + 1 > MaxParseErrors
              THEN [v1 EXCEPT !.errorCount = @ + 1, !.exit = ExitParseError]
              ELSE [v1 EXCEPT !.errorCount = @ + 1]
         ELSE IF line.PrevHash # (IF v1.expectedPrevHash = ""
                                  THEN computeGenesisHash(GenesisSeed)
                                  ELSE v1.expectedPrevHash)
              THEN [v1 EXCEPT !.exit = ExitChainBroken]
         ELSE IF calculateHash(line) # line.Hash
              THEN [v1 EXCEPT !.exit = ExitDataTampered]
         ELSE [v1 EXCEPT !.expectedPrevHash = line.Hash]

\* one iteration of the scan loop of verifyLog on the next line of the file
verifyLine(v, line) ==
    IF v.exit # Running THEN v
    ELSE IF line.kind = "oversize" THEN [v EXCEPT !.exit = ExitScanError]
    ELSE LET v1 == [v EXCEPT !.lineNum = @ + 1] IN
         IF line.kind # "json"
         THEN IF v1.errorCount + 1 > MaxParseErrors
              THEN [v1 EXCEPT !.errorCount = @ + 1, !.exit = ExitParseError]
              ELSE [v1 EXCEPT !.errorCount = @ + 1]
         ELSE IF v1.expectedPrevHash # "" /\ line.PrevHash # v1.expectedPrevHash
              THEN [v1 EXCEPT !.exit = ExitChainBroken]
         ELSE IF calculateHash(line) # line.Hash
              THEN [v1 EXCEPT !.exit = ExitDataTampered]
         ELSE [v1 EXCEPT !.expectedPrevHash = line.Hash]

\* the end of the scan loop: no line is left
verifyEOF(v) == IF v.exit # Running THEN v ELSE [v EXCEPT !.exit = ExitSuccess]

RECURSIVE verifyLines(_, _)
verifyLines(v, file) ==
    IF file = <<>> THEN verifyEOF(v) ELSE verifyLines(verifyLine(v, Head(file)), Tail(file))

\* verifyLog: the exit code of the verifier on a journal file
verifyLog(file) == verifyLines(VerifierStart, file).exit

(***************************************************************************)
(* State.                                                                  *)
(***************************************************************************)
VARIABLES
    entries,          \* Worker.entries: the buffered channel
    chanClosed,       \* close(w.entries) has happened (Shutdown was called)
    expectedSeq,      \* Worker.expectedSeq
    pendingEntries,   \* Worker.pendingEntries: SequenceID -> entry
    prevHash,         \* Worker.prevHash
    writes,           \* every call of storage.Write so far, in order
    journal,          \* the journal file
    closes,           \* for every call of storage.Close, len(writes) at the call
    done,             \* Worker.done is closed: run has returned
    logged,           \* SequenceIDs whose Log call has completed
    pendingPeak,      \* largest len(pendingEntries) seen so far (history)
    faults,           \* SequenceID -> outcome of storage.Write for that entry
    payloads,         \* the names of the payloads producers choose from
    inHand,           \* Worker.run: the entry taken from the channel while in the loop
                      \* body; the entries the range at shutdown has yet to visit
    loopAt,           \* Worker.run: "range" (at the receive), "body", "drain" (at the
                      \* lookup of the drain loop), "delete" (behind its processEntry),
                      \* "shutdown", "close" (before storage.Close), "exit" (before
                      \* the deferred close of done)
    original,         \* the journal as the worker left it, once it was edited
    tampered,         \* the journal file has been edited after the worker closed it
    vfile,            \* verifier: the lines of the file scanned so far
    verifier          \* verifier: the local state of verifyLog

workerVars == <<entries, chanClosed, expectedSeq, pendingEntries, prevHash, writes,
                journal, closes, done, logged, pendingPeak, faults, payloads, inHand, loopAt>>

tamperVars == <<original, tampered>>

verifierVars == <<vfile, verifier>>

\* the proxy handler, one handler goroutine "h" and one monitoring
\* goroutine "m" per request
VARIABLES
    pc,               \* request -> goroutine -> position in its code
    ret,              \* request -> goroutine -> position after finalize returns
    kind,             \* request -> "streaming" or "regular" (which handler runs)
    seqID,            \* request -> sequenceID of the handler (-1: not reserved)
    ctxErr,           \* request -> ctx.Err() of the stream context
    clientGone,       \* request -> the client has disconnected
    rc,               \* request -> its ResponseCapturer
    snap,             \* request -> the fields the completion callback has read
    upstream,         \* request -> bytes passed to Write by the upstream side
    client,           \* request -> bytes the client's writer has taken
    nWrites,          \* request -> number of Write calls so far
    cbRuns,           \* request -> number of invocations of the completion callback
    mfault,           \* request -> the monitoring task has panicked
    nextSequenceID,   \* Handler.nextSequenceID
    reservations,     \* the values getNextSequenceID has returned, in order
    logCalls,         \* the entries passed to Worker.Log, in order
    cause,            \* request -> what cancelled its stream context
    finCalls,         \* request -> number of calls of finalize
    req,              \* request -> its path and whether its body can be read
    reply,            \* request -> status the handler answered with itself (0: none)
    proxied           \* requests handed to proxy.ServeHTTP

streamVars == <<pc, ret, kind, seqID, ctxErr, clientGone, rc, snap, upstream, client,
                nWrites, cbRuns, mfault, nextSequenceID, reservations, logCalls,
                cause, finCalls, req, reply, proxied>>

\* the worker's variables the proxy handler does not touch
workerRest == <<chanClosed, expectedSeq, pendingEntries, prevHash, writes, journal, closes,
                done, pendingPeak, faults, payloads, inHand, loopAt>>

\* the inputs and results of the pure functions of the proxy, each applied
\* on its own to an input drawn from a bounded set
VARIABLES
    sse,              \* reconstructStreamResponse: body, position, chunks, result
    san,              \* sanitizeHeaders: the map given, the map as it is, the result
    med,              \* ExtractFromBody: the matches, the body as rewritten, the references
    trc               \* EnrichTraceContext: the bodies and the trace context

pureVars == <<sse, san, med, trc>>

\* FileStorage shared by goroutines that call Write at the same time
VARIABLES
    fsMu,             \* FileStorage.mu: 0 when unlocked, else the caller holding it
    fsCall,           \* caller -> position in Write and the entry it was given
    fsFile,           \* the blocks of bytes in the file, in the order they were appended
    fsSynced,         \* number of blocks that an fsync has forced to disk
    fsReturned,       \* what every finished call of Write returned
    fsNext            \* number of calls of Write made so far

\* the media directory, which outlives the proxy process
VARIABLES
    mediaDir,         \* the files under media.storage_path: path and content
    mediaRun,         \* number of times the proxy has been started again
    mediaDay,         \* the date time.Now() gives
    mediaJob          \* request -> where extractMediaFromBodies is in its bodies

mediaVars == <<mediaDir, mediaRun, mediaDay, mediaJob>>

storeVars == <<fsMu, fsCall, fsFile, fsSynced, fsReturned, fsNext, mediaVars>>

(***************************************************************************)
(* Audit worker (worker.go).                                               *)
(***************************************************************************)
\* the worker's private state as one value, for the helpers below
WorkerState == [expectedSeq |-> expectedSeq, pendingEntries |-> pendingEntries,
                prevHash |-> prevHash, writes |-> writes, journal |-> journal,
                loopAt |-> loopAt]

\* processEntry that does not advance the worker's prevHash after a write
processEntryStale(w, entry, how) ==
    LET e1 == [entry EXCEPT !.PrevHash = w.prevHash]
        e2 == [e1 EXCEPT !.Hash = computeHash(e1)]
        res == StorageWrite(w.journal, e2, faults[e2.SequenceID])
    IN [w EXCEPT !.journal = res.file,
                 !.writes = Append(@, [entry |-> e2, how |-> how, ok |-> res.ok])]

\* processEntry that advances the worker's prevHash whether the write
\* succeeded or not
processEntryAlways(w, entry, how) ==
    LET e1 == [entry EXCEPT !.PrevHash = w.prevHash]
        e2 == [e1 EXCEPT !.Hash = computeHash(e1)]
        res == StorageWrite(w.journal, e2, faults[e2.SequenceID])
    IN [w EXCEPT !.journal = res.file,
                 !.writes = Append(@, [entry |-> e2, how |-> how, ok |-> res.ok]),
                 !.prevHash = e2.Hash]

\* processEntry that passes an entry to storage a second time when the
\* first write fails
processEntryRetry(w, entry, how) ==
    LET e1 == [entry EXCEPT !.PrevHash = w.prevHash]
        e2 == [e1 EXCEPT !.Hash = computeHash(e1)]
        res == StorageWrite(w.journal, e2, faults[e2.SequenceID])
        again == StorageWrite(res.file, e2, "ok")
    IN IF res.ok
       THEN [w EXCEPT !.journal = res.file,
                      !.writes = Append(@, [entry |-> e2, how |-> how, ok |-> TRUE]),
                      !.prevHash = e2.Hash]
       ELSE [w EXCEPT !.journal = again.file,
                      !.writes = @ \o <<[entry |-> e2, how |-> how, ok |-> FALSE],
                                        [entry |-> e2, how |-> how, ok |-> TRUE]>>,
                      !.prevHash = e2.Hash]

\* Worker.processEntry; how records the call site
processEntry(w, entry, how) ==
    LET e1 == [entry EXCEPT !.PrevHash = w.prevHash]
        e2 == [e1 EXCEPT !.Hash = computeHash(e1)]
        res == StorageWrite(w.journal, e2, faults[e2.SequenceID])
    IN [w EXCEPT !.journal = res.file,
                 !.writes = Append(@, [entry |-> e2, how |-> how, ok |-> res.ok]),
                 !.prevHash = IF res.ok THEN e2.Hash ELSE @]

MapDelete(m, k) == [s \in DOMAIN m \ {k} |-> m[s]]

MapPut(m, k, v) == [s \in DOMAIN m \cup {k} |-> IF s = k THEN v ELSE m[s]]

\* worker.go:82-84 and 87-89, one pass of the loop that drains the pending
\* entries that are now in sequence: the entry at expectedSeq is looked up
\* and passed to processEntry, the map still holding it, or the loop ends
drainPending(w) ==
    IF w.expectedSeq \in DOMAIN w.pendingEntries
    THEN [processEntry(w, w.pendingEntries[w.expectedSeq], "drain") EXCEPT !.loopAt = "delete"]
    ELSE [w EXCEPT !.loopAt = "range"]

\* the drain with an "if" in place of the loop: at most one successor is written
deletePendingOnce(w) ==
    [w EXCEPT !.pendingEntries = MapDelete(@, w.expectedSeq), !.expectedSeq = @ + 1,
              !.loopAt = "range"]

\* the drain that leaves the entries it has written in the pending map
deletePendingKeep(w) == [w EXCEPT !.expectedSeq = @ + 1, !.loopAt = "drain"]

\* worker.go:85-86, the rest of the pass: the entry is deleted from the map
\* and expectedSeq incremented
deletePending(w) ==
    [w EXCEPT !.pendingEntries = MapDelete(@, w.expectedSeq), !.expectedSeq = @ + 1,
              !.loopAt = "drain"]

\* the run loop failing open only once pending holds more than the limit
handleEntryOverfull(w, entry) ==
    IF entry.SequenceID = w.expectedSeq
    THEN LET w1 == processEntry(w, entry, "inorder")
         IN [w1 EXCEPT !.expectedSeq = @ + 1, !.loopAt = "drain"]
    ELSE IF Cardinality(DOMAIN w.pendingEntries) > MaxPendingEntries
         THEN LET w1 == processEntry(w, entry, "failopen")
              IN [w1 EXCEPT !.expectedSeq = entry.SequenceID + 1, !.loopAt = "range"]
         ELSE [w EXCEPT !.pendingEntries = MapPut(@, entry.SequenceID, entry),
                        !.loopAt = "range"]

\* worker.go:73-80 and 96-108, the body of the run loop for the received
\* entry up to the drain loop
handleEntry(w, entry) ==
    IF entry.SequenceID = w.expectedSeq
    THEN LET w1 == processEntry(w, entry, "inorder")
         IN [w1 EXCEPT !.expectedSeq = @ + 1, !.loopAt = "drain"]
    ELSE IF Cardinality(DOMAIN w.pendingEntries) >= MaxPendingEntries
         THEN LET w1 == processEntry(w, entry, "failopen")
              IN [w1 EXCEPT !.expectedSeq = entry.SequenceID + 1, !.loopAt = "range"]
         ELSE [w EXCEPT !.pendingEntries = MapPut(@, entry.SequenceID, entry),
                        !.loopAt = "range"]

\* a shutdown that forgets the entries left in pending
shutdownDrainSkip(w, order) == w

\* worker.go:118-121, one pass of the range over the pending map: the next
\* entry of the order the runtime picked is processed
shutdownDrain(w, order) == processEntry(w, Head(order), "shutdown")

\* the orders in which a range over a map with key set S may visit its keys
Orders(S) == {o \in [1..Cardinality(S) -> S] : \A i, j \in DOMAIN o : i # j => o[i] # o[j]}

SetWorkerState(w) ==
    /\ expectedSeq' = w.expectedSeq
    /\ pendingEntries' = w.pendingEntries
    /\ prevHash' = w.prevHash
    /\ writes' = w.writes
    /\ journal' = w.journal
    /\ loopAt' = w.loopAt

\* Worker.Log: the send on the entries channel (blocks while the buffer is full)
Log(seq, p) ==
    /\ ~chanClosed
    /\ seq \notin logged
    /\ p \in payloads
    /\ Len(entries) < BufferSize
    /\ entries' = Append(entries, AuditEntry(seq, Payload(p)))
    /\ logged' = logged \cup {seq}
    /\ UNCHANGED <<tamperVars, verifierVars, pureVars, storeVars, streamVars>>
    /\ UNCHANGED <<chanClosed, expectedSeq, pendingEntries, prevHash, writes, journal,
                   closes, done, pendingPeak, faults, payloads, inHand, loopAt>>

\* the largest size of the pending map so far
Peak(w) == IF Cardinality(DOMAIN w.pendingEntries) > pendingPeak
           THEN Cardinality(DOMAIN w.pendingEntries) ELSE pendingPeak

\* Worker.run, "for entry := range w.entries": the receive (worker.go:72)
WorkerReceive ==
    /\ ~done
    /\ loopAt = "range"
    /\ entries # <<>>
    /\ entries' = Tail(entries)
    /\ inHand' = <<Head(entries)>>
    /\ loopAt' = "body"
    /\ UNCHANGED <<tamperVars, verifierVars, pureVars, storeVars, streamVars>>
    /\ UNCHANGED <<chanClosed, expectedSeq, pendingEntries, prevHash, writes, journal, closes,
                   done, logged, pendingPeak, faults, payloads>>

\* Worker.run, the loop body for the entry received, up to the drain loop
WorkerHandle ==
    /\ loopAt = "body"
    /\ LET w == handleEntry(WorkerState, inHand[1]) IN
          /\ SetWorkerState(w)
          /\ pendingPeak' = Peak(w)
    /\ inHand' = <<>>
    /\ UNCHANGED <<tamperVars, verifierVars, pureVars, storeVars, streamVars>>
    /\ UNCHANGED <<entries, chanClosed, closes, done, logged, faults, payloads>>

\* Worker.run, one pass of the drain loop up to the return of processEntry
\* (worker.go:82-84), or the break that ends the loop and the body
WorkerDrain ==
    /\ loopAt = "drain"
    /\ SetWorkerState(drainPending(WorkerState))
    /\ UNCHANGED <<tamperVars, verifierVars, pureVars, storeVars, streamVars>>
    /\ UNCHANGED <<entries, chanClosed, closes, done, logged, pendingPeak, faults, payloads,
                   inHand>>

\* Worker.run, the delete and the increment that end a pass of the drain
\* loop (worker.go:85-86)
WorkerDelete ==
    /\ loopAt = "delete"
    /\ SetWorkerState(deletePending(WorkerState))
    /\ UNCHANGED <<tamperVars, verifierVars, pureVars, storeVars, streamVars>>
    /\ UNCHANGED <<entries, chanClosed, closes, done, logged, pendingPeak, faults, payloads,
                   inHand>>

\* the receive of "for entry := range w.entries" by itself: the worker takes
\* the head of the channel
Receives == ~done /\ loopAt = "range" /\ entries # <<>> /\ entries' = Tail(entries)

\* a step of the loop body by itself: the worker leaves the place it is at
\* or moves on to the next sequence number
Handles ==
    /\ loopAt # "range"
    /\ loopAt' \in {"range", "body", "drain", "delete"}
    /\ expectedSeq' \in 0..(MaxLateSeq + 2)

\* Worker.Shutdown: close(w.entries); it returns once done is closed
Shutdown ==
    /\ ~chanClosed
    /\ chanClosed' = TRUE
    /\ UNCHANGED <<tamperVars, verifierVars, pureVars, storeVars, streamVars>>
    /\ UNCHANGED <<entries, expectedSeq, pendingEntries, prevHash, writes, journal,
                   closes, done, logged, pendingPeak, faults, payloads, inHand, loopAt>>

\* Worker.run: the range over the channel ends once it is closed and empty;
\* the range over the pending map starts in an order the runtime picks
\* (worker.go:72, 113-114)
WorkerRangeEnds ==
    /\ ~done
    /\ chanClosed
    /\ loopAt = "range"
    /\ entries = <<>>
    /\ \E order \in Orders(DOMAIN pendingEntries) :
          inHand' = [i \in DOMAIN order |-> pendingEntries[order[i]]]
    /\ loopAt' = "shutdown"
    /\ UNCHANGED <<tamperVars, verifierVars, pureVars, storeVars, streamVars>>
    /\ UNCHANGED <<entries, chanClosed, expectedSeq, pendingEntries, prevHash, writes, journal,
                   closes, done, logged, pendingPeak, faults, payloads>>

\* Worker.run, one pass of the range over the pending map at shutdown
WorkerShutdownDrain ==
    /\ loopAt = "shutdown"
    /\ inHand # <<>>
    /\ SetWorkerState(shutdownDrain(WorkerState, inHand))
    /\ inHand' = Tail(inHand)
    /\ UNCHANGED <<tamperVars, verifierVars, pureVars, storeVars, streamVars>>
    /\ UNCHANGED <<entries, chanClosed, closes, done, logged, pendingPeak, faults, payloads>>

\* Worker.run after the range over the pending map: the map is replaced by
\* an empty one and the mutex released (worker.go:122-125)
WorkerClearPending ==
    /\ loopAt = "shutdown"
    /\ inHand = <<>>
    /\ pendingEntries' = <<>>
    /\ loopAt' = "close"
    /\ UNCHANGED <<tamperVars, verifierVars, pureVars, storeVars, streamVars>>
    /\ UNCHANGED <<entries, chanClosed, expectedSeq, prevHash, writes, journal, closes, done,
                   logged, pendingPeak, faults, payloads, inHand>>

\* Worker.run: w.storage.Close() (worker.go:127-130); closes records the
\* number of writes made before the call
WorkerCloseStorage ==
    /\ loopAt = "close"
    /\ closes' = Append(closes, Len(writes))
    /\ loopAt' = "exit"
    /\ UNCHANGED <<tamperVars, verifierVars, pureVars, storeVars, streamVars>>
    /\ UNCHANGED <<entries, chanClosed, expectedSeq, pendingEntries, prevHash, writes, journal,
                   done, logged, pendingPeak, faults, payloads, inHand>>

\* Worker.run returns: the deferred close(w.done) (worker.go:70), on which
\* Shutdown returns
WorkerExit ==
    /\ loopAt = "exit"
    /\ done' = TRUE
    /\ loopAt' = "range"
    /\ UNCHANGED <<tamperVars, verifierVars, pureVars, storeVars, streamVars>>
    /\ UNCHANGED <<entries, chanClosed, expectedSeq, pendingEntries, prevHash, writes, journal,
                   closes, logged, pendingPeak, faults, payloads, inHand>>

\* the process is started again on the journal file of the run that has ended:
\* NewFileStorage opens the file for appending, NewWorker starts from the
\* genesis hash and sequence number 0 (main, part_000:42-49)
Restart ==
    /\ done
    /\ Len(closes) <= MaxRestarts
    /\ entries' = <<>>
    /\ chanClosed' = FALSE
    /\ expectedSeq' = 0
    /\ pendingEntries' = <<>>
    /\ prevHash' = computeGenesisHash(GenesisSeed)
    /\ done' = FALSE
    /\ logged' = {}
    /\ pendingPeak' = 0
    /\ inHand' = <<>>
    /\ loopAt' = "range"
    /\ UNCHANGED <<writes, journal, closes, faults, payloads>>
    /\ UNCHANGED <<tamperVars, verifierVars, pureVars, storeVars, streamVars>>

\* NewWorker (worker.go:36-52) on an empty journal file
InitWorker ==
    /\ entries = <<>>
    /\ chanClosed = FALSE
    /\ expectedSeq = 0
    /\ pendingEntries = <<>>
    /\ prevHash = computeGenesisHash(GenesisSeed)
    /\ writes = <<>>
    /\ journal = <<>>
    /\ closes = <<>>
    /\ done = FALSE
    /\ logged = {}
    /\ pendingPeak = 0
    /\ inHand = <<>>
    /\ loopAt = "range"

NextWorker ==
    \/ \E seq \in SeqIDs, p \in PayloadNames : Log(seq, p)
    \/ WorkerReceive
    \/ WorkerHandle
    \/ WorkerDrain
    \/ WorkerDelete
    \/ Shutdown
    \/ WorkerRangeEnds
    \/ WorkerShutdownDrain
    \/ WorkerClearPending
    \/ WorkerCloseStorage
    \/ WorkerExit

(***************************************************************************)
(* An editor of the journal file, after the worker has closed it.          *)
(***************************************************************************)
\* the hashed fields of a journal line
HashedFields(line) ==
    <<line.Timestamp, line.Endpoint, line.ReqBody, line.RespBody, line.StatusCode,
      line.Error, line.IsComplete, line.Trace, line.PrevHash>>

\* the lines an editor may put in place of line: hashed fields changed, the
\* stored hash kept
Edits(line) ==
    {[line EXCEPT !.Endpoint = ep, !.ReqBody = rb, !.StatusCode = sc,
                  !.IsComplete = ic, !.Trace = tr, !.PrevHash = ph] :
        ep \in {line.Endpoint, "ab"}, rb \in {line.ReqBody, ""},
        sc \in {line.StatusCode, 404}, ic \in BOOLEAN,
        tr \in {line.Trace, NoTrace}, ph \in {line.PrevHash, "<0>"}}
    \ {line}

Tamper ==
    /\ done
    /\ ~tampered
    /\ verifyLog(journal) = ExitSuccess
    /\ \E i \in DOMAIN journal :
          /\ journal[i].kind = "json"
          /\ \E l \in Edits(journal[i]) : journal' = [journal EXCEPT ![i] = l]
    /\ original' = journal
    /\ tampered' = TRUE
    /\ UNCHANGED <<verifierVars, streamVars, pureVars, storeVars>>
    /\ UNCHANGED <<entries, chanClosed, expectedSeq, pendingEntries, prevHash, writes,
                   closes, done, logged, pendingPeak, faults, payloads, inHand, loopAt>>

InitTamper ==
    /\ original = <<>>
    /\ tampered = FALSE

(***************************************************************************)
(* The verifier scanning a journal file line by line.                      *)
(***************************************************************************)
\* how many entries a scanned file holds at most
MaxParsedLines == 3

\* a journal line with the given hashed content, prev_hash and stored hash
\* (recomputed = TRUE: the hash the verifier recomputes)
JournalLine(p, ph, recomputed) ==
    LET l == [MarshalJSON(AuditEntry(0, p)) EXCEPT !.PrevHash = ph]
    IN [l EXCEPT !.Hash = IF recomputed THEN calculateHash(l) ELSE "<1>"]

\* the lines the file may continue with: unparseable and over-long lines,
\* and entries whose prev_hash does or does not continue the chain and whose
\* stored hash is or is not the recomputed one
NextLines(v) ==
    {GarbageLine, OversizeLine} \cup
    {JournalLine(p, ph, r) :
        p \in {PlainPayload, ToolCallPayload},
        ph \in {IF v.expectedPrevHash = "" THEN computeGenesisHash(GenesisSeed)
                ELSE v.expectedPrevHash, "<0>"},
        r \in BOOLEAN}

ParsedLines(file) == {i \in DOMAIN file : file[i].kind = "json"}

\* scanner.Scan returns the next line and the loop body runs on it
ScanLine(line) ==
    /\ verifier.exit = Running
    /\ line.kind = "json" => Cardinality(ParsedLines(vfile)) < MaxParsedLines
    /\ vfile' = Append(vfile, line)
    /\ verifier' = verifyLine(verifier, line)
    /\ UNCHANGED <<workerVars, tamperVars, streamVars, pureVars, storeVars>>

\* scanner.Scan returns false at the end of the file
ScanEOF ==
    /\ verifier.exit = Running
    /\ verifier' = verifyEOF(verifier)
    /\ UNCHANGED <<vfile, workerVars, tamperVars, streamVars, pureVars, storeVars>>

InitVerifier ==
    /\ vfile = <<>>
    /\ verifier = VerifierStart

NextVerifier ==
    \/ \E line \in NextLines(verifier) : ScanLine(line)
    \/ ScanEOF

(***************************************************************************)
(* Stream reconstruction (internal/proxy/stream_reconstruct.go).  A body   *)
(* is a sequence of lines as strings.Split(body, "\n") and TrimSpace leave *)
(* them; a line is blank, the terminator "data: [DONE]", a "data: " line   *)
(* with a payload, or any other text.  A payload either unmarshals into a  *)
(* JSON object or it does not.                                             *)
(***************************************************************************)
MaxSSELines == 3

\* the fields of a streamed chunk the reconstruction looks at
SSEEvent(choices, delta, role, contentKind, content, toolCalls, finish, usage) ==
    [object |-> "chat.completion.chunk", choices |-> choices, delta |-> delta,
     role |-> role, contentKind |-> contentKind, content |-> content,
     toolCalls |-> toolCalls, finish |-> finish, usage |-> usage]

EvContent(s) == SSEEvent("object", TRUE, "", "string", s, <<>>, "", 0)
EvRole == SSEEvent("object", TRUE, "assistant", "string", "", <<>>, "", 0)
EvToolCall == SSEEvent("object", TRUE, "", "null", "", <<"call_1">>, "", 0)
EvFinish == SSEEvent("object", TRUE, "", "absent", "", <<>>, "stop", 13)
EvNoChoices == SSEEvent("absent", FALSE, "", "absent", "", <<>>, "", 0)
EvNoDelta == SSEEvent("object", FALSE, "", "absent", "", <<>>, "stop", 0)
EvBadChoice == SSEEvent("number", FALSE, "", "absent", "", <<>>, "", 0)

ContentEvents == {EvContent(""), EvContent("H"), EvContent("i"), EvRole}
SSEEvents == ContentEvents \cup {EvToolCall, EvFinish, EvNoChoices, EvNoDelta, EvBadChoice}

SSELine(k, parses, ev) == [kind |-> k, parses |-> parses, ev |-> ev]
BlankLine == SSELine("blank", FALSE, EvNoChoices)
DoneLine == SSELine("done", FALSE, EvNoChoices)
OtherLine == SSELine("other", FALSE, EvNoChoices)
BadDataLine == SSELine("data", FALSE, EvNoChoices)
DataLine(ev) == SSELine("data", TRUE, ev)
SSELines == {BlankLine, DoneLine, OtherLine, BadDataLine} \cup {DataLine(ev) : ev \in SSEEvents}

SSEBodies == UNION {[1..n -> SSELines] : n \in 0..MaxSSELines}

\* the loop taking every "data: " line for a chunk, parsed or not
parseSSELineLoose(chunks, line) ==
    IF line.kind = "data" THEN Append(chunks, line.ev) ELSE chunks

\* one pass of the loop of parseSSEChunks over a line
parseSSELine(chunks, line) ==
    IF line.kind = "data" /\ line.parses THEN Append(chunks, line.ev) ELSE chunks

RECURSIVE parseSSEChunks(_)
parseSSEChunks(body) ==
    IF body = <<>> THEN <<>>
    ELSE parseSSELine(parseSSEChunks(SubSeq(body, 1, Len(body) - 1)), body[Len(body)])

\* strings.Replace(obj, ".chunk", "", 1) on the object names of the model
StripChunk(obj) == IF obj = "chat.completion.chunk" THEN "chat.completion" ELSE obj

\* what the loop over the chunks of reconstructOpenAIStream has gathered
NoAccum == [panic |-> FALSE, role |-> "", content |-> "", toolCalls |-> <<>>,
            finish |-> "", usage |-> 0]

accumulate(a, ev) ==
    IF a.panic \/ ev.choices = "absent" THEN a
    ELSE IF ev.choices # "object" THEN [a EXCEPT !.panic = TRUE]
    ELSE IF ~ev.delta THEN a
    ELSE LET d == [a EXCEPT !.role = IF ev.role # "" THEN ev.role ELSE @,
                            !.content = IF ev.contentKind = "string"
                                        THEN @ \o ev.content ELSE @,
                            !.toolCalls = @ \o ev.toolCalls]
             f == IF ev.finish # "" THEN [d EXCEPT !.finish = ev.finish] ELSE d
         IN  IF ev.usage # 0 THEN [f EXCEPT !.usage = ev.usage] ELSE f

RECURSIVE accumulateAll(_)
accumulateAll(chunks) ==
    IF chunks = <<>> THEN NoAccum
    ELSE accumulate(accumulateAll(SubSeq(chunks, 1, Len(chunks) - 1)), chunks[Len(chunks)])

\* the message of the single consolidated choice: content when the
\* concatenation is not empty, else null content and the tool calls when
\* there are tool calls, else neither key
consolidateMessage(a) ==
    IF a.content # ""
    THEN [role |-> a.role, contentKind |-> "string", content |-> a.content, toolCalls |-> <<>>]
    ELSE IF Len(a.toolCalls) > 0
    THEN [role |-> a.role, contentKind |-> "null", content |-> "", toolCalls |-> a.toolCalls]
    ELSE [role |-> a.role, contentKind |-> "absent", content |-> "", toolCalls |-> <<>>]

NoMetadata == [present |-> FALSE, chunks_received |-> 0]

\* reconstructOpenAIStream: the consolidated response and its metadata
reconstructOpenAIStream(chunks) ==
    LET a == accumulateAll(chunks)
    IN  [panic |-> a.panic, reconstructed |-> TRUE, body |-> <<>>,
         object |-> StripChunk(chunks[1].object),
         message |-> consolidateMessage(a), finish |-> a.finish, usage |-> a.usage,
         metadata |-> [present |-> TRUE, chunks_received |-> Len(chunks)]]

\* reconstructStreamResponse: the body as it came when no chunk parses
reconstructStreamResponse(body) ==
    LET chunks == parseSSEChunks(body)
    IN  IF Len(chunks) = 0
        THEN [panic |-> FALSE, reconstructed |-> FALSE, body |-> body, object |-> "",
              message |-> consolidateMessage(NoAccum), finish |-> "", usage |-> 0,
              metadata |-> NoMetadata]
        ELSE reconstructOpenAIStream(chunks)

NoResult == reconstructStreamResponse(<<>>)

\* the scan of the body, line by line, then the consolidation
SSEParseLine ==
    /\ sse.state = "parsing"
    /\ sse.pos <= Len(sse.body)
    /\ sse' = [sse EXCEPT !.pos = @ + 1,
                          !.chunks = parseSSELine(@, sse.body[sse.pos])]
    /\ UNCHANGED <<san, med, trc>>
    /\ UNCHANGED <<workerVars, tamperVars, verifierVars, streamVars, storeVars>>

SSEReconstruct ==
    /\ sse.state = "parsing"
    /\ sse.pos > Len(sse.body)
    /\ sse' = [sse EXCEPT !.state = "returned",
                          !.result = reconstructStreamResponse(sse.body)]
    /\ UNCHANGED <<san, med, trc>>
    /\ UNCHANGED <<workerVars, tamperVars, verifierVars, streamVars, storeVars>>

SSEStart(body) == [state |-> "parsing", body |-> body, pos |-> 1, chunks |-> <<>>,
                   result |-> NoResult]

SSEIdle == [SSEStart(<<>>) EXCEPT !.state = "idle"]

NextSSE ==
    \/ SSEParseLine
    \/ SSEReconstruct

(***************************************************************************)
(* Response capturer (response_capturer.go).                               *)
(***************************************************************************)
\* string(bytes)
RECURSIVE BytesToString(_)
BytesToString(b) == IF b = <<>> THEN "" ELSE Head(b) \o BytesToString(Tail(b))

\* The bodies of the model are sequences of letters; a letter stands for a
\* line of the body with its newline, and the limit of the mirror counts
\* letters.  "x", "y", "z" are lines of text.
\* the header of a gzip stream (it starts with the bytes 1F 8B)
GzipMagic == "[1F][8B]"
\* the deflated block and the trailer of the gzip stream of the line "x"
GzipOfX == "X"
\* the line data: {"object":"chat.completion.chunk","choices":[{"delta":{"content":"e"}}]}
EventLetter == "e"
\* the line data: {"choices":[1]}
PoisonLetter == "p"

\* the data of one Write call of the upstream side, for a body of text
Chunks == {<<>>, <<"x">>, <<"y", "z">>}

\* which handler runs for a request (see TrackingAgrees)
Kinds == {"streaming", "untracked", "regular"}

\* what the upstream answers: the arguments of its WriteHeader call (none:
\* the upstream side calls Write at once) and the data of its Write calls
Responses ==
    {[header |-> FALSE, status |-> 200, ctype |-> "", enc |-> "", chunks |-> Chunks],
     [header |-> TRUE, status |-> 500, ctype |-> "application/json", enc |-> "",
      chunks |-> {<<"x">>}],
     [header |-> TRUE, status |-> 200, ctype |-> "text/event-stream", enc |-> "",
      chunks |-> {<<EventLetter>>, <<PoisonLetter>>}],
     [header |-> TRUE, status |-> 200, ctype |-> "application/json", enc |-> "gzip",
      chunks |-> {<<GzipMagic, GzipOfX>>}]}

\* the Write calls of the response whose WriteHeader call, or none, the
\* capturer c has seen
ChunksFor(c) ==
    UNION {a.chunks : a \in {b \in Responses :
                                /\ b.header = c.wroteHeader
                                /\ b.header => /\ b.status = c.statusCode
                                               /\ b.ctype = c.contentType
                                               /\ b.enc = c.contentEncoding}}

TruncationMarker == "\n[TRUNCATED: response exceeded max_audit_body_size limit]"

\* NewResponseCapturer and NewStreamingResponseCapturer
\* (wroteHeader: WriteHeader has been called; wr: while a call of Write is
\* between its lines, the values the call is going to store)
NewCapturer(maxSize) ==
    [statusCode |-> 200, body |-> <<>>, completed |-> FALSE, currentSize |-> 0,
     maxSize |-> maxSize, truncated |-> FALSE, errorMsg |-> "", isComplete |-> TRUE,
     writeErr |-> FALSE, contentType |-> "", contentEncoding |-> "",
     wroteHeader |-> FALSE, wr |-> <<>>]

\* ResponseCapturer.WriteHeader, lines 116-126: the status code and the
\* headers of the response are captured
CapturerWriteHeader(c, status, ctype, enc) ==
    [c EXCEPT !.statusCode = status, !.contentType = ctype, !.contentEncoding = enc,
              !.wroteHeader = TRUE]

\* ResponseCapturer.Write, line 132: the bytes the underlying writer takes;
\* a failing writer takes the first n bytes
ForwardToClient(c, data, ok, n) == IF ok THEN data ELSE SubSeq(data, 1, n)

\* a Write whose size counter advances by the bytes it mirrored only
CapturerWriteCountMirrored(c, data, ok) ==
    IF ~ok
    THEN [c EXCEPT !.writeErr = TRUE, !.isComplete = FALSE,
                   !.errorMsg = "WRITE_ERROR: broken pipe"]
    ELSE IF c.maxSize < 0 \/ c.currentSize < c.maxSize
         THEN LET remaining == IF c.maxSize > 0
                               THEN Min(Len(data), c.maxSize - c.currentSize)
                               ELSE Len(data)
              IN IF remaining > 0
                 THEN [c EXCEPT !.body = @ \o SubSeq(data, 1, remaining),
                                !.currentSize = @ + remaining,
                                !.truncated = IF c.maxSize > 0 /\ c.currentSize + Len(data) >= c.maxSize
                                              THEN TRUE ELSE @]
                 ELSE c
         ELSE c

\* a Write that mirrors and counts the data also when forwarding it failed
CapturerWriteMirrorsFailed(c, data, ok) ==
    LET e == IF ok THEN c
             ELSE [c EXCEPT !.writeErr = TRUE, !.isComplete = FALSE,
                            !.errorMsg = "WRITE_ERROR: broken pipe"]
    IN IF e.maxSize < 0 \/ e.currentSize < e.maxSize
       THEN LET remaining == IF e.maxSize > 0
                             THEN Min(Len(data), e.maxSize - e.currentSize)
                             ELSE Len(data)
            IN IF remaining > 0
               THEN [e EXCEPT !.body = @ \o SubSeq(data, 1, remaining),
                              !.currentSize = @ + Len(data),
                              !.truncated = IF e.maxSize > 0 /\ e.currentSize + Len(data) >= e.maxSize
                                            THEN TRUE ELSE @]
               ELSE e
       ELSE [e EXCEPT !.currentSize = @ + Len(data)]

\* a Write that mirrors all the data whatever the limit
CapturerWriteUnbounded(c, data, ok) ==
    IF ~ok
    THEN [c EXCEPT !.writeErr = TRUE, !.isComplete = FALSE,
                   !.errorMsg = "WRITE_ERROR: broken pipe"]
    ELSE [c EXCEPT !.body = @ \o data,
                   !.currentSize = @ + Len(data),
                   !.truncated = IF c.maxSize > 0 /\ c.currentSize + Len(data) >= c.maxSize
                                 THEN TRUE ELSE @]

\* ResponseCapturer.Write, lines 135-167: the capturer after the call
\* (finalize after a write error is a step of its own)
CapturerWrite(c, data, ok) ==
    IF ~ok
    THEN [c EXCEPT !.writeErr = TRUE, !.isComplete = FALSE,
                   !.errorMsg = "WRITE_ERROR: broken pipe"]
    ELSE IF c.maxSize < 0 \/ c.currentSize < c.maxSize
         THEN LET remaining == IF c.maxSize > 0
                               THEN Min(Len(data), c.maxSize - c.currentSize)
                               ELSE Len(data)
              IN IF remaining > 0
                 THEN [c EXCEPT !.body = @ \o SubSeq(data, 1, remaining),
                                !.currentSize = @ + Len(data),
                                !.truncated = IF c.maxSize > 0 /\ c.currentSize + Len(data) >= c.maxSize
                                              THEN TRUE ELSE @]
                 ELSE c
         ELSE [c EXCEPT !.currentSize = @ + Len(data)]

\* ResponseCapturer.Body, lines 202-206, on the buffer and the flag it has read
BodyOf(buf, trunc) == BytesToString(buf) \o (IF trunc THEN TruncationMarker ELSE "")

\* ResponseCapturer.Body
Body(c) == BodyOf(c.body, c.truncated)

\* compress/gzip.Reader with io.ReadAll on the letters of a body: one gzip
\* stream after the other is inflated; anything else is an error
RECURSIVE Gunzip(_)
Gunzip(buf) ==
    IF buf = <<>> THEN [ok |-> TRUE, text |-> <<>>]
    ELSE IF Len(buf) >= 2 /\ buf[1] = GzipMagic /\ buf[2] = GzipOfX
    THEN LET rest == Gunzip(SubSeq(buf, 3, Len(buf)))
         IN  [ok |-> rest.ok, text |-> <<"x">> \o rest.text]
    ELSE [ok |-> FALSE, text |-> <<>>]

\* ResponseCapturer.DecompressedBody on the buffer, the flag and the
\* Content-Encoding header it has read, as the letters of the body and
\* whether the truncation marker follows them: the gunzipped body when the
\* header names gzip and the body starts with the gzip header and inflates
\* to its end (the marker behind it makes the reader fail), else the body
\* as Body returns it
Decompressed(buf, trunc, enc) ==
    IF enc = "gzip" /\ buf # <<>> /\ Head(buf) = GzipMagic /\ ~trunc /\ Gunzip(buf).ok
    THEN [buf |-> Gunzip(buf).text, trunc |-> FALSE]
    ELSE [buf |-> buf, trunc |-> trunc]

\* ResponseCapturer.DecompressedBody as a string
DecompressedBody(buf, trunc, enc) ==
    BodyOf(Decompressed(buf, trunc, enc).buf, Decompressed(buf, trunc, enc).trunc)

\* the line of the body a letter stands for, as parseSSEChunks sees it
LetterLine(b) ==
    IF b = EventLetter THEN DataLine(EvContent(EventLetter))
    ELSE IF b = PoisonLetter THEN DataLine(EvBadChoice)
    ELSE OtherLine

\* strings.Split(body, "\n") on a body read from the buffer: its lines,
\* then the two lines of the truncation marker or the empty last line
LinesOf(buf, trunc) ==
    [i \in DOMAIN buf |-> LetterLine(buf[i])]
        \o (IF trunc THEN <<BlankLine, OtherLine>> ELSE <<BlankLine>>)

\* the lines of a JSON object or array with a comma between its members
Members(ms) ==
    LET text[i \in 0..Len(ms)] ==
            IF i = 0 THEN ""
            ELSE text[i - 1] \o ms[i] \o (IF i < Len(ms) THEN "," ELSE "") \o "\n"
    IN  text[Len(ms)]

\* a tool call of the model as json.MarshalIndent writes it in the array
ToolCallText(call) ==
    "          {\n            \"id\": \"" \o call \o "\"\n          }"

\* json.MarshalIndent(reconstructed, "", "  ") of the consolidated response
\* (stream_reconstruct.go:152-181; the keys of a map come out sorted)
MarshalIndent(res) ==
    LET m == res.message
        message ==
            (IF m.contentKind = "string" THEN <<"        \"content\": \"" \o m.content \o "\"">>
             ELSE IF m.contentKind = "null" THEN <<"        \"content\": null">> ELSE <<>>)
            \o (IF m.role # "" THEN <<"        \"role\": \"" \o m.role \o "\"">> ELSE <<>>)
            \o (IF m.contentKind = "null"
                THEN <<"        \"tool_calls\": [\n"
                          \o Members([i \in DOMAIN m.toolCalls |-> ToolCallText(m.toolCalls[i])])
                          \o "        ]">>
                ELSE <<>>)
        choice ==
            (IF res.finish # "" THEN <<"      \"finish_reason\": \"" \o res.finish \o "\"">>
             ELSE <<>>)
            \o <<"      \"index\": 0",
                 IF message = <<>> THEN "      \"message\": {}"
                 ELSE "      \"message\": {\n" \o Members(message) \o "      }">>
        top ==
            <<"  \"choices\": [\n    {\n" \o Members(choice) \o "    }\n  ]",
              "  \"object\": \"" \o res.object \o "\"">>
            \o (IF res.usage # 0
                THEN <<"  \"usage\": {\n    \"total_tokens\": " \o ToString(res.usage)
                          \o "\n  }">>
                ELSE <<>>)
    IN  "{\n" \o Members(top) \o "}"

\* the result of reconstructStreamResponse on the decompressed body, for a
\* body that was read as the buffer buf, the flag trunc and the
\* Content-Encoding enc
Reconstructed(buf, trunc, enc) ==
    CHOOSE res \in {reconstructStreamResponse(body) :
                       body \in {LinesOf(d.buf, d.trunc) :
                                    d \in {Decompressed(buf, trunc, enc)}}} : TRUE

(***************************************************************************)
(* Span classification (internal/trace/detector.go).  A request body is    *)
(* JSON or not; if it is, it has a list of messages, each with a role, a   *)
(* tool_call_id and a content that is a string, a string holding a JSON    *)
(* object with an error field, or an array of content parts.  A response   *)
(* body is JSON or not; if it is, it has a list of choices, each with the  *)
(* names of the functions its message calls.                               *)
(***************************************************************************)
MaxMessages == 2
MaxChoices == 2

Roles == {"user", "tool"}
ToolCallIDs == {"", "call_1"}
ContentKinds == {"text", "error", "parts"}

Messages == [role : Roles, tool_call_id : ToolCallIDs, content : ContentKinds]

NotJSON == [json |-> FALSE, messages |-> <<>>, choices |-> <<>>]

RequestBodies ==
    {NotJSON} \cup {[json |-> TRUE, messages |-> ms, choices |-> <<>>] :
                        ms \in UNION {[1..n -> Messages] : n \in 0..MaxMessages}}

\* a tool call of a choice's message: its id, its type, and the name and
\* the arguments of its function
ToolCallOf(name) == [id |-> "call_1", type |-> "function", name |-> name, arguments |-> "{}"]

\* the tool calls of a choice's message
ToolCallLists == {<<>>, <<ToolCallOf("f")>>, <<ToolCallOf("g"), ToolCallOf("f")>>}

ResponseBodies ==
    {NotJSON} \cup {[json |-> TRUE, messages |-> <<>>, choices |-> cs] :
                        cs \in UNION {[1..n -> ToolCallLists] : n \in 0..MaxChoices}}

\* json.Unmarshal into openAIRequest: an array where the struct has a
\* string is an UnmarshalTypeError
UnmarshalRequestOK(body) ==
    body.json /\ \A i \in 1..Len(body.messages) : body.messages[i].content # "parts"

UnmarshalResponseOK(body) == body.json

DetectToolCalls(responseBody) ==
    IF ~UnmarshalResponseOK(responseBody) THEN NoToolCall
    ELSE IF Len(responseBody.choices) = 0 THEN NoToolCall
    ELSE IF Len(responseBody.choices[1]) = 0 THEN NoToolCall
    ELSE LET tc == responseBody.choices[1][1]
         IN  [present |-> TRUE, ID |-> tc.id, Type |-> tc.type, Name |-> tc.name,
              ArgumentsHash |-> Sha256(tc.arguments)]

DetectToolResults(requestBody) ==
    IF ~UnmarshalRequestOK(requestBody) THEN NoToolResult
    ELSE LET hits == {i \in 1..Len(requestBody.messages) :
                        /\ requestBody.messages[i].role = "tool"
                        /\ requestBody.messages[i].tool_call_id # ""}
         IN  IF hits = {} THEN NoToolResult
             ELSE LET msg == requestBody.messages[CHOOSE j \in hits : \A h \in hits : j <= h]
                  IN  [present |-> TRUE, ToolCallID |-> msg.tool_call_id,
                       ContentHash |-> Sha256(msg.content), IsError |-> msg.content = "error"]

DetermineSpanType(requestBody, responseBody) ==
    IF DetectToolCalls(responseBody).present THEN "TOOL_CALL"
    ELSE IF DetectToolResults(requestBody).present THEN "TOOL_RESULT"
    ELSE IF UnmarshalResponseOK(responseBody) /\ Len(responseBody.choices) > 0
    THEN "FINAL_RESPONSE"
    ELSE "AGENT_THINKING"

GenerateSpanName(spanType, toolCall, toolResult) ==
    CASE spanType = "USER_PROMPT" -> "user_prompt"
      [] spanType = "AGENT_THINKING" -> "agent_thinking"
      [] spanType = "TOOL_CALL" -> IF toolCall.present THEN toolCall.Name ELSE "tool_call"
      [] spanType = "TOOL_RESULT" ->
            IF toolResult.present /\ toolResult.IsError THEN "tool_error" ELSE "tool_result"
      [] spanType = "FINAL_RESPONSE" -> "final_response"
      [] spanType = "ERROR" -> "error"
      [] OTHER -> "unknown"

\* ExtractTraceContext leaves SpanType, ToolCall and ToolResult unset
NewTrace == [NoTrace EXCEPT !.present = TRUE, !.TraceID = "t", !.SpanID = "s"]

\* EnrichTraceContext (detector.go:189-220): the trace with its span type,
\* span name and tool call or tool result set from the two bodies
EnrichTraceContext(trace, requestBody, responseBody) ==
    IF ~trace.present THEN trace
    ELSE LET toolCall == DetectToolCalls(responseBody)
             toolResult == DetectToolResults(requestBody)
             spanType == DetermineSpanType(requestBody, responseBody)
         IN  IF toolCall.present
             THEN [trace EXCEPT !.ToolCall = toolCall, !.SpanType = "TOOL_CALL",
                                !.SpanName = GenerateSpanName("TOOL_CALL", toolCall,
                                                              NoToolResult)]
             ELSE IF toolResult.present
             THEN [trace EXCEPT !.ToolResult = toolResult, !.SpanType = "TOOL_RESULT",
                                !.SpanName = GenerateSpanName("TOOL_RESULT", NoToolCall,
                                                              toolResult)]
             ELSE [trace EXCEPT !.SpanType = spanType,
                                !.SpanName = GenerateSpanName(spanType, NoToolCall,
                                                              NoToolResult)]

(***************************************************************************)
(* Proxy handler (handler.go) and the capturer's monitoring task, one      *)
(* handler goroutine "h" and one monitoring goroutine "m" per request.     *)
(***************************************************************************)
\* getNextSequenceID that returns the counter after the increment
getNextSequenceIDPost(counter) == [id |-> counter + 1, counter |-> counter + 1]

\* Handler.getNextSequenceID: atomic.AddUint64(&h.nextSequenceID, 1) - 1
getNextSequenceID(counter) == [id |-> counter, counter |-> counter + 1]

NoSnap == [buf |-> <<>>, body |-> "", status |-> 0, isComplete |-> TRUE, error |-> "",
           truncated |-> FALSE, truncatedAt |-> 0, trace |-> NoTrace]

\* what json.Unmarshal into openAIRequest makes of the request body of the
\* model, "b": it is not JSON
RequestJSON == NotJSON

\* what json.Unmarshal into openAIResponse makes of the response body the
\* entry is going to hold: the consolidated response has one choice, whose
\* message has the tool calls MarshalIndent wrote (each with its id only);
\* a body that was not rebuilt is lines of text, lines of an event stream,
\* the bytes of a gzip stream or empty, with or without the truncation
\* marker, and does not parse
ResponseJSON(rebuilt, res) ==
    IF rebuilt
    THEN [json |-> TRUE, messages |-> <<>>,
          choices |-> <<IF res.message.contentKind = "null"
                        THEN [i \in DOMAIN res.message.toolCalls |->
                                 [id |-> res.message.toolCalls[i], type |-> "",
                                  name |-> "", arguments |-> ""]]
                        ELSE <<>>>>]
    ELSE NotJSON

\* extractTraceContext and EnrichTraceContext (handler.go:372-377, 431 and
\* 463-465): the trace of the entry
HandlerTrace(rebuilt, res) ==
    EnrichTraceContext(NewTrace, RequestJSON, ResponseJSON(rebuilt, res))

\* the entry the handler assembles from what it read from the capturer
BuildEntry(r, sn, streaming) ==
    [SequenceID |-> seqID[r], Timestamp |-> 10, Endpoint |-> "a", ReqBody |-> "b",
     RespBody |-> sn.body, StatusCode |-> sn.status, Error |-> sn.error,
     IsComplete |-> sn.isComplete, IsStreaming |-> streaming,
     Truncated |-> sn.truncated, TruncatedAtBytes |-> sn.truncatedAt,
     Trace |-> sn.trace, PrevHash |-> "", Hash |-> ""]

Goto(r, g, to) == pc' = [pc EXCEPT ![r][g] = to]

\* request paths, as sequences of characters
Paths == {<<>>, <<"/">>, <<"/", "/", "c">>, <<"/", "o">>, <<"/", "o", "/", "c">>,
          <<"o", "/", "c">>, <<"/", "u", "/", "c">>, <<"/", "b", "/", "c">>}

\* one path for each answer of ServeHTTP
SeqPaths == {<<"/">>, <<"/", "o", "/", "c">>, <<"/", "u", "/", "c">>, <<"/", "b", "/", "c">>}

\* the endpoints of the configuration: name -> url.Parse accepts the target
Endpoints == (<<"o">> :> TRUE) @@ (<<"b">> :> FALSE)

\* Config.GetEndpoint
GetEndpoint(name) ==
    IF name \in DOMAIN Endpoints THEN [found |-> TRUE, targetOK |-> Endpoints[name]]
    ELSE [found |-> FALSE, targetOK |-> FALSE]

\* strings.TrimPrefix(path, "/")
TrimSlash(path) == IF path # <<>> /\ Head(path) = "/" THEN Tail(path) ELSE path

\* index of the first "/" of a path (0 when there is none)
IndexSlash(path) ==
    LET S == {i \in DOMAIN path : path[i] = "/"}
    IN IF S = {} THEN 0 ELSE CHOOSE i \in S : \A j \in S : i <= j

\* Handler.parseEndpoint: the endpoint name and the path behind it
parseEndpoint(path) ==
    LET p == TrimSlash(path)
        i == IndexSlash(p)
        name == IF i = 0 THEN p ELSE SubSeq(p, 1, i - 1)
    IN IF name = <<>> THEN [endpointName |-> <<>>, actualPath |-> <<>>]
       ELSE [endpointName |-> name,
             actualPath |-> IF i = 0 THEN <<"/">> ELSE <<"/">> \o SubSeq(p, i + 1, Len(p))]

\* Handler.ServeHTTP, lines 63-91: the status the handler answers with
\* itself (0: none, the request goes on to the reverse proxy)
RejectStatus(path, bodyOK) ==
    LET ep == GetEndpoint(parseEndpoint(path).endpointName) IN
    IF parseEndpoint(path).endpointName = <<>> THEN 400
    ELSE IF ~ep.found THEN 404
    ELSE IF ~ep.targetOK THEN 500
    ELSE IF ~bodyOK THEN 400
    ELSE 0

\* "Internal server error\n", the body http.Error writes
ErrorPage == <<"Internal server error\n">>

\* Handler.ServeHTTP, lines 63-91: the body http.Error writes to the client
\* with that status, the message and a newline (none: the request goes on)
RejectBody(path, bodyOK) ==
    LET name == parseEndpoint(path).endpointName
        ep == GetEndpoint(name)
    IN
    IF name = <<>>
    THEN <<"Invalid request: endpoint name is required (format: /{endpoint_name}/{path})\n">>
    ELSE IF ~ep.found THEN <<"Unknown endpoint: " \o BytesToString(name) \o "\n">>
    ELSE IF ~ep.targetOK THEN ErrorPage
    ELSE IF ~bodyOK THEN <<"Failed to read request body\n">>
    ELSE <<>>

NoRequest == [path |-> <<>>, bodyOK |-> TRUE, arrived |-> FALSE]

\* The kind of a request: "streaming" when its Accept or Content-Type header
\* names text/event-stream and streaming.enable_sequence_tracking is on
\* (handleStreamingResponse runs), "untracked" when the header names it and
\* the setting is off, "regular" otherwise (handleRegularResponse runs for
\* both, lines 112-119).  The setting is one for all requests of a run.
TrackingAgrees(r, k) ==
    \A q \in Requests \ {r} :
        req[q].arrived /\ reply[q] = 0 =>
            /\ (k = "streaming" => kind[q] # "untracked")
            /\ (k = "untracked" => kind[q] # "streaming")

\* a ServeHTTP that takes the sequence number before it validates the request
ArriveReserveFirst(r, k, path, bodyOK) ==
    /\ pc[r].h = "idle"
    /\ TrackingAgrees(r, k)
    /\ req' = [req EXCEPT ![r] = [path |-> path, bodyOK |-> bodyOK, arrived |-> TRUE]]
    /\ reply' = [reply EXCEPT ![r] = RejectStatus(path, bodyOK)]
    /\ client' = [client EXCEPT ![r] = RejectBody(path, bodyOK)]
    /\ IF RejectStatus(path, bodyOK) # 0
       THEN /\ Goto(r, "h", "done")
            /\ nextSequenceID' = nextSequenceID + 1
            /\ reservations' = Append(reservations, nextSequenceID)
            /\ UNCHANGED <<kind, rc, proxied>>
       ELSE /\ kind' = [kind EXCEPT ![r] = k]
            /\ UNCHANGED <<nextSequenceID, reservations>>
            /\ IF k = "streaming"
               THEN Goto(r, "h", "reserve") /\ UNCHANGED <<rc, proxied>>
               ELSE /\ Goto(r, "h", "proxy")
                    /\ rc' = [rc EXCEPT ![r] = NewCapturer(-1)]
                    /\ proxied' = proxied \cup {r}
    /\ UNCHANGED <<workerRest, tamperVars, verifierVars, pureVars, storeVars>>
    /\ UNCHANGED <<cause, finCalls, ret, seqID, ctxErr, clientGone, snap, upstream, nWrites,
                   cbRuns, mfault, logCalls, entries, logged>>

\* Handler.ServeHTTP (handler.go:52-120): the request is answered with an
\* error status and the text of the error, or handed to the streaming or the
\* regular handler
Arrive(r, k, path, bodyOK) ==
    /\ pc[r].h = "idle"
    /\ TrackingAgrees(r, k)
    /\ req' = [req EXCEPT ![r] = [path |-> path, bodyOK |-> bodyOK, arrived |-> TRUE]]
    /\ reply' = [reply EXCEPT ![r] = RejectStatus(path, bodyOK)]
    /\ client' = [client EXCEPT ![r] = RejectBody(path, bodyOK)]
    /\ IF RejectStatus(path, bodyOK) # 0
       THEN Goto(r, "h", "done") /\ UNCHANGED <<kind, rc, proxied>>
       ELSE /\ kind' = [kind EXCEPT ![r] = k]
            /\ IF k = "streaming"
               THEN Goto(r, "h", "reserve") /\ UNCHANGED <<rc, proxied>>
               ELSE /\ Goto(r, "h", "proxy")
                    /\ rc' = [rc EXCEPT ![r] = NewCapturer(-1)]
                    /\ proxied' = proxied \cup {r}
    /\ UNCHANGED <<workerRest, tamperVars, verifierVars, pureVars, storeVars>>
    /\ UNCHANGED <<cause, finCalls, ret, seqID, ctxErr, clientGone, snap, upstream, nWrites,
                   cbRuns, mfault, nextSequenceID, reservations, logCalls, entries, logged>>

\* handleStreamingResponse, lines 422-523: reserve the sequence ID, derive
\* the stream context, create the capturer, start the monitoring goroutine
ReserveStreaming(r) ==
    /\ pc[r].h = "reserve"
    /\ LET res == getNextSequenceID(nextSequenceID) IN
          /\ seqID' = [seqID EXCEPT ![r] = res.id]
          /\ nextSequenceID' = res.counter
          /\ reservations' = Append(reservations, res.id)
    /\ ctxErr' = [ctxErr EXCEPT ![r] = IF clientGone[r] THEN "canceled" ELSE "none"]
    /\ cause' = [cause EXCEPT ![r] = IF clientGone[r] THEN "client_early" ELSE "none"]
    /\ rc' = [rc EXCEPT ![r] = NewCapturer(MaxAuditBodySize)]
    /\ pc' = [pc EXCEPT ![r] = [h |-> "proxy", m |-> "wait"]]
    /\ proxied' = proxied \cup {r}
    /\ UNCHANGED <<workerRest, tamperVars, verifierVars, pureVars, storeVars, req, reply>>
    /\ UNCHANGED <<finCalls, ret, kind, clientGone, snap, upstream, client, nWrites, cbRuns, mfault,
                   logCalls, entries, logged>>

\* the handler goroutine is inside proxy.ServeHTTP
InProxy(r) == pc[r].h \in {"proxy", "w_body", "w_size", "w_trunc", "w_error"}

\* the upstream side calls WriteHeader, once and before its first Write
\* (httputil.ReverseProxy); the status and the two headers are read later
\* than any Write by the readers that depend on them, so that the three
\* assignments are one step
UpstreamWriteHeader(r, status, ctype, enc) ==
    /\ pc[r].h = "proxy"
    /\ nWrites[r] = 0
    /\ ~rc[r].wroteHeader
    /\ rc' = [rc EXCEPT ![r] = CapturerWriteHeader(@, status, ctype, enc)]
    /\ UNCHANGED <<workerRest, tamperVars, verifierVars, pureVars, storeVars, req, reply, proxied>>
    /\ UNCHANGED <<cause, finCalls, pc, ret, kind, seqID, ctxErr, clientGone, snap, upstream, client,
                   nWrites, cbRuns, mfault, nextSequenceID, reservations, logCalls, entries, logged>>

\* the place in Write, lines 145-165, of the next assignment that changes
\* the capturer c on its way to t, from the given place on
MirrorAt(c, t, from) ==
    IF from <= 1 /\ t.body # c.body THEN "w_body"
    ELSE IF from <= 2 /\ t.currentSize # c.currentSize THEN "w_size"
    ELSE IF from <= 3 /\ t.truncated # c.truncated THEN "w_trunc"
    ELSE "proxy"

\* one assignment of Write to a field of the capturer, the handler going on
\* to the next one or returning from Write
MirrorStep(r, c, from) ==
    /\ rc' = [rc EXCEPT ![r] = IF MirrorAt(c, c.wr, from) = "proxy"
                               THEN [c EXCEPT !.wr = <<>>] ELSE c]
    /\ Goto(r, "h", MirrorAt(c, c.wr, from))

\* the upstream side calls Write and the client's writer takes the data
\* (ResponseCapturer.Write, line 132, returning n, nil); the fields of the
\* capturer that lines 145-165 read are written by this goroutine only
UpstreamWrite(r, data) ==
    /\ pc[r].h = "proxy"
    /\ nWrites[r] < MaxWrites
    /\ nWrites' = [nWrites EXCEPT ![r] = @ + 1]
    /\ upstream' = [upstream EXCEPT ![r] = @ \o data]
    /\ client' = [client EXCEPT ![r] = @ \o ForwardToClient(rc[r], data, TRUE, Len(data))]
    /\ MirrorStep(r, [rc[r] EXCEPT !.wr = CapturerWrite(rc[r], data, TRUE)], 1)
    /\ UNCHANGED <<workerRest, tamperVars, verifierVars, pureVars, storeVars, req, reply, proxied>>
    /\ UNCHANGED <<cause, finCalls, ret, kind, seqID, ctxErr, clientGone, snap, cbRuns, mfault,
                   nextSequenceID, reservations, logCalls, entries, logged>>

\* Write, line 154: rc.body.Write(data[:remaining])
MirrorAppend(r) ==
    /\ pc[r].h = "w_body"
    /\ MirrorStep(r, [rc[r] EXCEPT !.body = rc[r].wr.body], 2)
    /\ UNCHANGED <<workerRest, tamperVars, verifierVars, pureVars, storeVars, req, reply, proxied>>
    /\ UNCHANGED <<cause, finCalls, ret, kind, seqID, ctxErr, clientGone, snap, upstream, client,
                   nWrites, cbRuns, mfault, nextSequenceID, reservations, logCalls, entries, logged>>

\* Write, lines 155 and 164: rc.currentSize += int64(len(data))
MirrorCount(r) ==
    /\ pc[r].h = "w_size"
    /\ MirrorStep(r, [rc[r] EXCEPT !.currentSize = rc[r].wr.currentSize], 3)
    /\ UNCHANGED <<workerRest, tamperVars, verifierVars, pureVars, storeVars, req, reply, proxied>>
    /\ UNCHANGED <<cause, finCalls, ret, kind, seqID, ctxErr, clientGone, snap, upstream, client,
                   nWrites, cbRuns, mfault, nextSequenceID, reservations, logCalls, entries, logged>>

\* Write, line 159: rc.truncated = true
MirrorTruncated(r) ==
    /\ pc[r].h = "w_trunc"
    /\ MirrorStep(r, [rc[r] EXCEPT !.truncated = rc[r].wr.truncated], 4)
    /\ UNCHANGED <<workerRest, tamperVars, verifierVars, pureVars, storeVars, req, reply, proxied>>
    /\ UNCHANGED <<cause, finCalls, ret, kind, seqID, ctxErr, clientGone, snap, upstream, client,
                   nWrites, cbRuns, mfault, nextSequenceID, reservations, logCalls, entries, logged>>

\* the upstream side calls Write and the client's writer fails after n
\* bytes (Write, line 132, returning n and an error)
UpstreamWriteFail(r, data, n) ==
    /\ pc[r].h = "proxy"
    /\ nWrites[r] < MaxWrites
    /\ n < Len(data)
    /\ nWrites' = [nWrites EXCEPT ![r] = @ + 1]
    /\ upstream' = [upstream EXCEPT ![r] = @ \o data]
    /\ client' = [client EXCEPT ![r] = @ \o ForwardToClient(rc[r], data, FALSE, n)]
    /\ rc' = [rc EXCEPT ![r].wr = CapturerWrite(rc[r], data, FALSE)]
    /\ Goto(r, "h", "w_error")
    /\ UNCHANGED <<workerRest, tamperVars, verifierVars, pureVars, storeVars, req, reply, proxied>>
    /\ UNCHANGED <<cause, finCalls, ret, kind, seqID, ctxErr, clientGone, snap, cbRuns, mfault,
                   nextSequenceID, reservations, logCalls, entries, logged>>

\* Write, lines 135-141: the error is recorded and finalize is called before
\* the error is returned.  The only reader of the three fields that can run
\* meanwhile is the callback in the monitoring goroutine, which runs after
\* that goroutine has cleared isComplete itself, so that it can tell the
\* three assignments apart by errorMsg alone.
WriteError(r) ==
    /\ pc[r].h = "w_error"
    /\ rc' = [rc EXCEPT ![r] = [@ EXCEPT !.writeErr = rc[r].wr.writeErr,
                                         !.isComplete = rc[r].wr.isComplete,
                                         !.errorMsg = rc[r].wr.errorMsg,
                                         !.body = rc[r].wr.body,
                                         !.currentSize = rc[r].wr.currentSize,
                                         !.truncated = rc[r].wr.truncated,
                                         !.wr = <<>>]]
    /\ Goto(r, "h", "finalize")
    /\ ret' = [ret EXCEPT ![r].h = "abort"]
    /\ UNCHANGED <<workerRest, tamperVars, verifierVars, pureVars, storeVars, req, reply, proxied>>
    /\ UNCHANGED <<cause, finCalls, kind, seqID, ctxErr, clientGone, snap, upstream, client, nWrites,
                   cbRuns, mfault, nextSequenceID, reservations, logCalls, entries, logged>>

\* where the handler goes when proxy.ServeHTTP has returned
AfterProxy(r) == IF kind[r] = "streaming" THEN "finalize" ELSE "reserve_regular"

\* the upstream response ends: proxy.ServeHTTP returns
UpstreamEOF(r) ==
    /\ pc[r].h = "proxy"
    /\ Goto(r, "h", AfterProxy(r))
    /\ ret' = [ret EXCEPT ![r].h = "cancel"]
    /\ UNCHANGED <<workerRest, tamperVars, verifierVars, pureVars, storeVars, req, reply, proxied>>
    /\ UNCHANGED <<cause, finCalls, kind, seqID, ctxErr, clientGone, rc, snap, upstream, client, nWrites,
                   cbRuns, mfault, nextSequenceID, reservations, logCalls, entries, logged>>

\* proxy.ServeHTTP gives up after a failed write or because the request's
\* context is cancelled: it returns, or panics with http.ErrAbortHandler
\* (httputil.ReverseProxy does the latter under an http.Server), in which
\* case Complete() is skipped and only the deferred cancel() runs; the
\* http.Error of ServeHTTP's recover then writes to a writer that has failed
\* or whose client is gone, which takes nothing
ProxyAbort(r, panics) ==
    /\ pc[r].h = "abort" \/ (pc[r].h = "proxy" /\ clientGone[r])
    /\ IF panics
       THEN Goto(r, "h", IF kind[r] = "streaming" THEN "cancel" ELSE "done")
       ELSE Goto(r, "h", AfterProxy(r))
    /\ ret' = [ret EXCEPT ![r].h = "cancel"]
    /\ UNCHANGED <<workerRest, tamperVars, verifierVars, pureVars, storeVars, req, reply, proxied>>
    /\ UNCHANGED <<cause, finCalls, kind, seqID, ctxErr, clientGone, rc, snap, upstream, client, nWrites,
                   cbRuns, mfault, nextSequenceID, reservations, logCalls, entries, logged>>

\* finalize without the compare-and-swap: every call runs the callback
FinalizeNoCAS(r, g) ==
    /\ pc[r][g] = "finalize"
    /\ finCalls' = [finCalls EXCEPT ![r] = @ + 1]
    /\ rc' = [rc EXCEPT ![r].completed = TRUE]
    /\ IF kind[r] = "streaming"
       THEN Goto(r, g, "cb_body") /\ cbRuns' = [cbRuns EXCEPT ![r] = @ + 1]
       ELSE Goto(r, g, ret[r][g]) /\ UNCHANGED cbRuns
    /\ UNCHANGED <<workerRest, tamperVars, verifierVars, pureVars, storeVars, req, reply, proxied>>
    /\ UNCHANGED <<cause, ret, kind, seqID, ctxErr, clientGone, snap, upstream, client, nWrites,
                   mfault, nextSequenceID, reservations, logCalls, entries, logged>>

\* ResponseCapturer.finalize (called by Complete, Write and StartMonitoring):
\* the compare-and-swap on completed, then the callback if there is one
Finalize(r, g) ==
    /\ pc[r][g] = "finalize"
    /\ finCalls' = [finCalls EXCEPT ![r] = @ + 1]
    /\ IF ~rc[r].completed
       THEN /\ rc' = [rc EXCEPT ![r].completed = TRUE]
            /\ IF kind[r] = "streaming"
               THEN Goto(r, g, "cb_body") /\ cbRuns' = [cbRuns EXCEPT ![r] = @ + 1]
               ELSE Goto(r, g, ret[r][g]) /\ UNCHANGED cbRuns
       ELSE Goto(r, g, ret[r][g]) /\ UNCHANGED <<rc, cbRuns>>
    /\ UNCHANGED <<workerRest, tamperVars, verifierVars, pureVars, storeVars, req, reply, proxied>>
    /\ UNCHANGED <<cause, ret, kind, seqID, ctxErr, clientGone, snap, upstream, client, nWrites,
                   mfault, nextSequenceID, reservations, logCalls, entries, logged>>

\* the completion callback of handleStreamingResponse, line 449:
\* DecompressedBody calls Body, which reads the buffer (line 202)
CallbackBody(r, g) ==
    /\ pc[r][g] = "cb_body"
    /\ snap' = [snap EXCEPT ![r].buf = rc[r].body]
    /\ Goto(r, g, "cb_flag")
    /\ UNCHANGED <<workerRest, tamperVars, verifierVars, pureVars, storeVars, req, reply, proxied>>
    /\ UNCHANGED <<cause, finCalls, ret, kind, seqID, ctxErr, clientGone, rc, upstream, client, nWrites,
                   cbRuns, mfault, nextSequenceID, reservations, logCalls, entries, logged>>

\* the callback, lines 449-481: Body reads the truncated flag (line 203),
\* DecompressedBody the Content-Encoding header, reconstructStreamResponse
\* consolidates the body, EnrichTraceContext classifies it, and the entry
\* takes capturer.StatusCode().  The
\* header and the status are written once, before the first Write, and the
\* flag is set by a Write, so that reading them later than the flag gives
\* values that reading them with the flag gives as well.  (The second call
\* of Body, line 450, only decides about a header of the entry.)
CallbackReconstruct(r, g) ==
    /\ pc[r][g] = "cb_flag"
    /\ \E res \in {Reconstructed(snap[r].buf, rc[r].truncated, rc[r].contentEncoding)} :
          /\ ~res.panic
          /\ \E body \in {IF res.reconstructed THEN MarshalIndent(res)
                           ELSE DecompressedBody(snap[r].buf, rc[r].truncated,
                                                 rc[r].contentEncoding)} :
                snap' = [snap EXCEPT ![r].body = body,
                                     ![r].trace = HandlerTrace(res.reconstructed, res),
                                     ![r].status = rc[r].statusCode]
    /\ Goto(r, g, "cb_complete")
    /\ UNCHANGED <<workerRest, tamperVars, verifierVars, pureVars, storeVars, req, reply, proxied>>
    /\ UNCHANGED <<cause, finCalls, ret, kind, seqID, ctxErr, clientGone, rc, upstream, client, nWrites,
                   cbRuns, mfault, nextSequenceID, reservations, logCalls, entries, logged>>

\* the callback, lines 438-453: reconstructStreamResponse panics on the
\* body read, the deferred recover logs it and the callback returns before
\* entry assembly and Worker.Log
CallbackPanic(r, g) ==
    /\ pc[r][g] = "cb_flag"
    /\ \E res \in {Reconstructed(snap[r].buf, rc[r].truncated, rc[r].contentEncoding)} : res.panic
    /\ Goto(r, g, ret[r][g])
    /\ UNCHANGED <<workerRest, tamperVars, verifierVars, pureVars, storeVars, req, reply, proxied>>
    /\ UNCHANGED <<cause, finCalls, ret, kind, seqID, ctxErr, clientGone, rc, snap, upstream, client,
                   nWrites, cbRuns, mfault, nextSequenceID, reservations, logCalls, entries, logged>>

\* the callback, line 487: capturer.IsComplete()
CallbackIsComplete(r, g) ==
    /\ pc[r][g] = "cb_complete"
    /\ snap' = [snap EXCEPT ![r].isComplete = rc[r].isComplete]
    /\ Goto(r, g, "cb_error")
    /\ UNCHANGED <<workerRest, tamperVars, verifierVars, pureVars, storeVars, req, reply, proxied>>
    /\ UNCHANGED <<cause, finCalls, ret, kind, seqID, ctxErr, clientGone, rc, upstream, client, nWrites,
                   cbRuns, mfault, nextSequenceID, reservations, logCalls, entries, logged>>

\* the callback, line 488: capturer.Error()
CallbackError(r, g) ==
    /\ pc[r][g] = "cb_error"
    /\ snap' = [snap EXCEPT ![r].error = rc[r].errorMsg]
    /\ Goto(r, g, "cb_trunc")
    /\ UNCHANGED <<workerRest, tamperVars, verifierVars, pureVars, storeVars, req, reply, proxied>>
    /\ UNCHANGED <<cause, finCalls, ret, kind, seqID, ctxErr, clientGone, rc, upstream, client, nWrites,
                   cbRuns, mfault, nextSequenceID, reservations, logCalls, entries, logged>>

\* the callback, line 489: capturer.IsTruncated()
CallbackTruncated(r, g) ==
    /\ pc[r][g] = "cb_trunc"
    /\ snap' = [snap EXCEPT ![r].truncated = rc[r].truncated]
    /\ Goto(r, g, "cb_size")
    /\ UNCHANGED <<workerRest, tamperVars, verifierVars, pureVars, storeVars, req, reply, proxied>>
    /\ UNCHANGED <<cause, finCalls, ret, kind, seqID, ctxErr, clientGone, rc, upstream, client, nWrites,
                   cbRuns, mfault, nextSequenceID, reservations, logCalls, entries, logged>>

\* the callback, line 490: capturer.TruncatedAtBytes()
CallbackTruncatedAt(r, g) ==
    /\ pc[r][g] = "cb_size"
    /\ snap' = [snap EXCEPT ![r].truncatedAt = rc[r].currentSize]
    /\ Goto(r, g, "cb_log")
    /\ UNCHANGED <<workerRest, tamperVars, verifierVars, pureVars, storeVars, req, reply, proxied>>
    /\ UNCHANGED <<cause, finCalls, ret, kind, seqID, ctxErr, clientGone, rc, upstream, client, nWrites,
                   cbRuns, mfault, nextSequenceID, reservations, logCalls, entries, logged>>

\* the callback, line 498: h.auditWorker.Log(entry), then it returns
CallbackLog(r, g) ==
    /\ pc[r][g] = "cb_log"
    /\ Len(entries) < BufferSize
    /\ LET e == BuildEntry(r, snap[r], TRUE) IN
          /\ entries' = Append(entries, e)
          /\ logCalls' = Append(logCalls, e)
    /\ logged' = logged \cup {seqID[r]}
    /\ Goto(r, g, ret[r][g])
    /\ UNCHANGED <<workerRest, tamperVars, verifierVars, pureVars, storeVars, req, reply, proxied>>
    /\ UNCHANGED <<cause, finCalls, ret, kind, seqID, ctxErr, clientGone, rc, snap, upstream, client,
                   nWrites, cbRuns, mfault, nextSequenceID, reservations>>

\* handleStreamingResponse returns: the deferred cancel() of the stream context
HandlerCancel(r) ==
    /\ pc[r].h = "cancel"
    /\ ctxErr' = [ctxErr EXCEPT ![r] = IF @ = "none" THEN "canceled" ELSE @]
    /\ cause' = [cause EXCEPT ![r] = IF ctxErr[r] = "none" THEN "return" ELSE @]
    /\ Goto(r, "h", "done")
    /\ UNCHANGED <<workerRest, tamperVars, verifierVars, pureVars, storeVars, req, reply, proxied>>
    /\ UNCHANGED <<finCalls, ret, kind, seqID, clientGone, rc, snap, upstream, client, nWrites,
                   cbRuns, mfault, nextSequenceID, reservations, logCalls, entries, logged>>

\* handleRegularResponse, line 345: the sequence ID is taken after
\* proxy.ServeHTTP has returned
ReserveRegular(r) ==
    /\ pc[r].h = "reserve_regular"
    /\ LET res == getNextSequenceID(nextSequenceID) IN
          /\ seqID' = [seqID EXCEPT ![r] = res.id]
          /\ nextSequenceID' = res.counter
          /\ reservations' = Append(reservations, res.id)
    /\ Goto(r, "h", "log_regular")
    /\ UNCHANGED <<workerRest, tamperVars, verifierVars, pureVars, storeVars, req, reply, proxied>>
    /\ UNCHANGED <<cause, finCalls, ret, kind, ctxErr, clientGone, rc, snap, upstream, client, nWrites,
                   cbRuns, mfault, logCalls, entries, logged>>

\* handleRegularResponse, lines 351-362: the body of a response whose
\* Content-Type names text/event-stream goes through reconstructStreamResponse
RegularReconstructs(c) == c.contentType = "text/event-stream"

\* handleRegularResponse, lines 348-408: the entry is assembled from the
\* capturer, whose body is decompressed and, for an event stream,
\* reconstructed, and passed to Worker.Log.  (No other goroutine uses the
\* capturer of handleRegularResponse.)
RegularLog(r) ==
    /\ pc[r].h = "log_regular"
    /\ Len(entries) < BufferSize
    /\ \E c \in {rc[r]} : \E res \in {Reconstructed(c.body, c.truncated, c.contentEncoding)} :
          /\ ~(RegularReconstructs(c) /\ res.panic)
          /\ \E rebuilt \in {RegularReconstructs(c) /\ res.metadata.present} :
             \E body \in {IF rebuilt THEN MarshalIndent(res)
                           ELSE DecompressedBody(c.body, c.truncated, c.contentEncoding)} :
             \E e \in {BuildEntry(r, [buf |-> c.body, body |-> body, status |-> c.statusCode,
                                       isComplete |-> c.isComplete, error |-> c.errorMsg,
                                       truncated |-> FALSE, truncatedAt |-> 0,
                                       trace |-> HandlerTrace(rebuilt, res)],
                                   kind[r] = "untracked" \/ rebuilt)} :
                /\ entries' = Append(entries, e)
                /\ logCalls' = Append(logCalls, e)
    /\ logged' = logged \cup {seqID[r]}
    /\ Goto(r, "h", "done")
    /\ UNCHANGED <<workerRest, tamperVars, verifierVars, pureVars, storeVars, req, reply, proxied>>
    /\ UNCHANGED <<cause, finCalls, ret, kind, seqID, ctxErr, clientGone, rc, snap, upstream, client,
                   nWrites, cbRuns, mfault, nextSequenceID, reservations>>

\* handleRegularResponse, lines 355-356: reconstructStreamResponse panics on
\* an event-stream body; the recover of ServeHTTP (lines 54-59) ends the
\* request before Worker.Log is reached and calls http.Error, whose body
\* the client's writer takes unless the response had a Content-Length that
\* is used up or the client is gone
RegularPanic(r) ==
    /\ pc[r].h = "log_regular"
    /\ RegularReconstructs(rc[r])
    /\ \E res \in {Reconstructed(rc[r].body, rc[r].truncated, rc[r].contentEncoding)} : res.panic
    /\ \E taken \in BOOLEAN :
          /\ taken => ~clientGone[r] /\ ~rc[r].writeErr
          /\ client' = [client EXCEPT ![r] = IF taken THEN @ \o ErrorPage ELSE @]
    /\ Goto(r, "h", "done")
    /\ UNCHANGED <<workerRest, tamperVars, verifierVars, pureVars, storeVars, req, reply, proxied>>
    /\ UNCHANGED <<cause, finCalls, ret, kind, seqID, ctxErr, clientGone, rc, snap, upstream,
                   nWrites, cbRuns, mfault, nextSequenceID, reservations, logCalls, entries, logged>>

\* the client disconnects: the request's context is cancelled, and with it
\* the stream context derived from it
ClientDisconnect(r) ==
    /\ pc[r].h \notin {"idle", "done"}
    /\ ~clientGone[r]
    /\ clientGone' = [clientGone EXCEPT ![r] = TRUE]
    /\ ctxErr' = [ctxErr EXCEPT ![r] = IF @ = "none" /\ pc[r].m # "none" THEN "canceled" ELSE @]
    /\ cause' = [cause EXCEPT ![r] = IF ctxErr[r] = "none" /\ pc[r].m # "none"
                                     THEN (IF InProxy(r) THEN "client" ELSE "client_late")
                                     ELSE @]
    /\ UNCHANGED <<workerRest, tamperVars, verifierVars, pureVars, storeVars, req, reply, proxied>>
    /\ UNCHANGED <<finCalls, pc, ret, kind, seqID, rc, snap, upstream, client, nWrites, cbRuns,
                   mfault, nextSequenceID, reservations, logCalls, entries, logged>>

\* the stream_timeout deadline of the stream context expires
DeadlineExpires(r) ==
    /\ pc[r].m # "none"
    /\ pc[r].h # "done"
    /\ ctxErr[r] = "none"
    /\ ctxErr' = [ctxErr EXCEPT ![r] = "deadline"]
    /\ cause' = [cause EXCEPT ![r] = IF InProxy(r) THEN "deadline" ELSE "deadline_late"]
    /\ UNCHANGED <<workerRest, tamperVars, verifierVars, pureVars, storeVars, req, reply, proxied>>
    /\ UNCHANGED <<finCalls, pc, ret, kind, seqID, clientGone, rc, snap, upstream, client, nWrites,
                   cbRuns, mfault, nextSequenceID, reservations, logCalls, entries, logged>>

\* StartMonitoring, line 93: <-rc.ctx.Done() returns
MonitorWake(r) ==
    /\ pc[r].m = "wait"
    /\ ctxErr[r] # "none"
    /\ Goto(r, "m", "woke")
    /\ UNCHANGED <<workerRest, tamperVars, verifierVars, pureVars, storeVars, req, reply, proxied>>
    /\ UNCHANGED <<cause, finCalls, ret, kind, seqID, ctxErr, clientGone, rc, snap, upstream, client,
                   nWrites, cbRuns, mfault, nextSequenceID, reservations, logCalls,
                   entries, logged>>

\* StartMonitoring, lines 96-109: the error tag for ctx.Err()
MonitorSetError(r) ==
    /\ pc[r].m = "woke"
    /\ rc' = [rc EXCEPT ![r].errorMsg = IF ctxErr[r] = "deadline" THEN "STREAM_TIMEOUT"
                                        ELSE "CLIENT_DISCONNECT"]
    /\ Goto(r, "m", "set_incomplete")
    /\ UNCHANGED <<workerRest, tamperVars, verifierVars, pureVars, storeVars, req, reply, proxied>>
    /\ UNCHANGED <<cause, finCalls, ret, kind, seqID, ctxErr, clientGone, snap, upstream, client, nWrites,
                   cbRuns, mfault, nextSequenceID, reservations, logCalls, entries, logged>>

\* a fault in the monitoring task without the deferred recover: the goroutine
\* ends and finalize is not called
MonitorPanicUnrecovered(r) ==
    /\ pc[r].m = "woke"
    /\ ~mfault[r]
    /\ mfault' = [mfault EXCEPT ![r] = TRUE]
    /\ Goto(r, "m", "done")
    /\ UNCHANGED <<workerRest, tamperVars, verifierVars, pureVars, storeVars, req, reply, proxied>>
    /\ UNCHANGED <<cause, finCalls, ret, kind, seqID, ctxErr, clientGone, rc, snap, upstream, client,
                   nWrites, cbRuns, nextSequenceID, reservations, logCalls, entries, logged>>

\* StartMonitoring, lines 80-86: a fault in the monitoring task is recovered
MonitorPanic(r) ==
    /\ pc[r].m = "woke"
    /\ ~mfault[r]
    /\ mfault' = [mfault EXCEPT ![r] = TRUE]
    /\ rc' = [rc EXCEPT ![r].errorMsg = "MONITORING_PANIC"]
    /\ Goto(r, "m", "set_incomplete")
    /\ UNCHANGED <<workerRest, tamperVars, verifierVars, pureVars, storeVars, req, reply, proxied>>
    /\ UNCHANGED <<cause, finCalls, ret, kind, seqID, ctxErr, clientGone, snap, upstream, client, nWrites,
                   cbRuns, nextSequenceID, reservations, logCalls, entries, logged>>

\* StartMonitoring: rc.isComplete = false, then the call of finalize
MonitorSetIncomplete(r) ==
    /\ pc[r].m = "set_incomplete"
    /\ rc' = [rc EXCEPT ![r].isComplete = FALSE]
    /\ Goto(r, "m", "finalize")
    /\ ret' = [ret EXCEPT ![r].m = "done"]
    /\ UNCHANGED <<workerRest, tamperVars, verifierVars, pureVars, storeVars, req, reply, proxied>>
    /\ UNCHANGED <<cause, finCalls, kind, seqID, ctxErr, clientGone, snap, upstream, client, nWrites,
                   cbRuns, mfault, nextSequenceID, reservations, logCalls, entries, logged>>

InitStream ==
    /\ pc = [r \in Requests |-> [h |-> "idle", m |-> "none"]]
    /\ ret = [r \in Requests |-> [h |-> "cancel", m |-> "done"]]
    /\ kind = [r \in Requests |-> "streaming"]
    /\ seqID = [r \in Requests |-> -1]
    /\ ctxErr = [r \in Requests |-> "none"]
    /\ clientGone = [r \in Requests |-> FALSE]
    /\ rc = [r \in Requests |-> NewCapturer(-1)]
    /\ snap = [r \in Requests |-> NoSnap]
    /\ upstream = [r \in Requests |-> <<>>]
    /\ client = [r \in Requests |-> <<>>]
    /\ nWrites = [r \in Requests |-> 0]
    /\ cbRuns = [r \in Requests |-> 0]
    /\ mfault = [r \in Requests |-> FALSE]
    /\ nextSequenceID = 0
    /\ reservations = <<>>
    /\ logCalls = <<>>
    /\ cause = [r \in Requests |-> "none"]
    /\ finCalls = [r \in Requests |-> 0]
    /\ req = [r \in Requests |-> NoRequest]
    /\ reply = [r \in Requests |-> 0]
    /\ proxied = {}

\* the handler and the capturer of one request whose client fails,
\* disconnects and times out
NextStream ==
    \/ \E r \in FaultyRequests, k \in Kinds, path \in SeqPaths, bodyOK \in BOOLEAN :
          Arrive(r, k, path, bodyOK)
    \/ \E r \in FaultyRequests : ReserveStreaming(r)
    \/ \E r \in FaultyRequests, a \in Responses :
          a.header /\ UpstreamWriteHeader(r, a.status, a.ctype, a.enc)
    \/ \E r \in FaultyRequests : \E data \in ChunksFor(rc[r]) : UpstreamWrite(r, data)
    \/ \E r \in FaultyRequests : MirrorAppend(r)
    \/ \E r \in FaultyRequests : MirrorCount(r)
    \/ \E r \in FaultyRequests : MirrorTruncated(r)
    \/ \E r \in FaultyRequests : \E data \in ChunksFor(rc[r]), n \in 0..1 :
          UpstreamWriteFail(r, data, n)
    \/ \E r \in FaultyRequests : WriteError(r)
    \/ \E r \in FaultyRequests : UpstreamEOF(r)
    \/ \E r \in FaultyRequests, panics \in BOOLEAN : ProxyAbort(r, panics)
    \/ \E r \in FaultyRequests, g \in {"h", "m"} : Finalize(r, g)
    \/ \E r \in FaultyRequests, g \in {"h", "m"} : CallbackBody(r, g)
    \/ \E r \in FaultyRequests, g \in {"h", "m"} : CallbackReconstruct(r, g)
    \/ \E r \in FaultyRequests, g \in {"h", "m"} : CallbackIsComplete(r, g)
    \/ \E r \in FaultyRequests, g \in {"h", "m"} : CallbackError(r, g)
    \/ \E r \in FaultyRequests, g \in {"h", "m"} : CallbackTruncated(r, g)
    \/ \E r \in FaultyRequests, g \in {"h", "m"} : CallbackTruncatedAt(r, g)
    \/ \E r \in FaultyRequests, g \in {"h", "m"} : CallbackLog(r, g)
    \/ \E r \in FaultyRequests : HandlerCancel(r)
    \/ \E r \in FaultyRequests : ReserveRegular(r)
    \/ \E r \in FaultyRequests : RegularLog(r)
    \/ \E r \in FaultyRequests : ClientDisconnect(r)
    \/ \E r \in FaultyRequests : DeadlineExpires(r)
    \/ \E r \in FaultyRequests : MonitorWake(r)
    \/ \E r \in FaultyRequests : MonitorSetError(r)
    \/ \E r \in FaultyRequests : MonitorPanic(r)
    \/ \E r \in FaultyRequests : MonitorSetIncomplete(r)

\* the handler serving concurrent requests of healthy clients, every
\* response at most one chunk; the monitoring goroutine of such a request
\* wakes only after the handler has finalized the capture, and is followed
\* in NextStream
NextSeq ==
    \/ \E r \in Requests, k \in Kinds, path \in SeqPaths, bodyOK \in BOOLEAN :
          /\ pc[r].h = "idle"
          /\ bodyOK \/ RejectStatus(path, TRUE) = 0
          /\ Arrive(r, k, path, bodyOK)
    \/ \E r \in Requests : ReserveStreaming(r)
    \/ \E r \in Requests : UpstreamWriteHeader(r, 200, "text/event-stream", "")
    \/ \E r \in Requests : \E data \in ChunksFor(rc[r]) :
          nWrites[r] = 0 /\ Len(data) = 1 /\ UpstreamWrite(r, data)
    \/ \E r \in Requests : MirrorAppend(r)
    \/ \E r \in Requests : MirrorCount(r)
    \/ \E r \in Requests : UpstreamEOF(r)
    \/ \E r \in Requests, g \in {"h", "m"} : Finalize(r, g)
    \/ \E r \in Requests, g \in {"h", "m"} : CallbackBody(r, g)
    \/ \E r \in Requests, g \in {"h", "m"} : CallbackReconstruct(r, g)
    \/ \E r \in Requests, g \in {"h", "m"} : CallbackIsComplete(r, g)
    \/ \E r \in Requests, g \in {"h", "m"} : CallbackError(r, g)
    \/ \E r \in Requests, g \in {"h", "m"} : CallbackTruncated(r, g)
    \/ \E r \in Requests, g \in {"h", "m"} : CallbackTruncatedAt(r, g)
    \/ \E r \in Requests, g \in {"h", "m"} : CallbackLog(r, g)
    \/ \E r \in Requests : HandlerCancel(r)
    \/ \E r \in Requests : ReserveRegular(r)
    \/ \E r \in Requests : RegularLog(r)

(***************************************************************************)
(* Header sanitisation (Handler.sanitizeHeaders, maskSensitiveValue).      *)
(* Header names and values are strings, kept as sequences of their bytes.  *)
(***************************************************************************)
MaxTokenLen == 9
MaxValues == 2

\* strings.ToLower on the bytes of a header name
UpperToLower ==
    ("A" :> "a") @@ ("B" :> "b") @@ ("C" :> "c") @@ ("D" :> "d") @@ ("E" :> "e") @@
    ("F" :> "f") @@ ("G" :> "g") @@ ("H" :> "h") @@ ("I" :> "i") @@ ("J" :> "j") @@
    ("K" :> "k") @@ ("L" :> "l") @@ ("M" :> "m") @@ ("N" :> "n") @@ ("O" :> "o") @@
    ("P" :> "p") @@ ("Q" :> "q") @@ ("R" :> "r") @@ ("S" :> "s") @@ ("T" :> "t") @@
    ("U" :> "u") @@ ("V" :> "v") @@ ("W" :> "w") @@ ("X" :> "x") @@ ("Y" :> "y") @@
    ("Z" :> "z")

ToLowerChar(c) == IF c \in DOMAIN UpperToLower THEN UpperToLower[c] ELSE c

ToLower(name) == [i \in 1..Len(name) |-> ToLowerChar(name[i])]

sensitiveHeaders == {
    <<"a", "u", "t", "h", "o", "r", "i", "z", "a", "t", "i", "o", "n">>,
    <<"c", "o", "o", "k", "i", "e">>,
    <<"s", "e", "t", "-", "c", "o", "o", "k", "i", "e">>,
    <<"x", "-", "a", "p", "i", "-", "k", "e", "y">>,
    <<"a", "p", "i", "-", "k", "e", "y">>,
    <<"x", "-", "a", "u", "t", "h", "-", "t", "o", "k", "e", "n">>,
    <<"x", "-", "c", "s", "r", "f", "-", "t", "o", "k", "e", "n">>,
    <<"p", "r", "o", "x", "y", "-", "a", "u", "t", "h", "o", "r", "i", "z", "a", "t", "i", "o", "n">>}

\* the header names of a request or a response, as they arrive
HeaderNames == {
    <<"A", "u", "t", "h", "o", "r", "i", "z", "a", "t", "i", "o", "n">>,
    <<"c", "o", "o", "k", "i", "e">>,
    <<"S", "e", "t", "-", "C", "o", "o", "k", "i", "e">>,
    <<"X", "-", "A", "P", "I", "-", "K", "E", "Y">>,
    <<"A", "p", "i", "-", "K", "e", "y">>,
    <<"X", "-", "A", "u", "t", "h", "-", "T", "o", "k", "e", "n">>,
    <<"x", "-", "c", "s", "r", "f", "-", "t", "o", "k", "e", "n">>,
    <<"P", "R", "O", "X", "Y", "-", "A", "U", "T", "H", "O", "R", "I", "Z", "A", "T", "I", "O", "N">>,
    <<"C", "o", "n", "t", "e", "n", "t", "-", "T", "y", "p", "e">>,
    <<"X", "-", "A", "p", "i", "-", "K", "e", "y", "s">>}

TokenAlphabet == <<"s", "k", "-", "a", "b", "c", "d", "e", "f", "g", "h">>

\* a secret of n bytes
Token(n) == [i \in 1..n |-> TokenAlphabet[((i - 1) % Len(TokenAlphabet)) + 1]]

BearerPrefix == <<"B", "e", "a", "r", "e", "r", " ">>
bearerPrefix == <<"b", "e", "a", "r", "e", "r", " ">>
BearerNoSpace == <<"B", "e", "a", "r", "e", "r">>

ValuePrefixes == {<<>>, BearerPrefix, bearerPrefix, BearerNoSpace}

HeaderValues == {pre \o Token(n) : pre \in ValuePrefixes, n \in 0..MaxTokenLen}

\* the value lists of one header: up to MaxValues values, each with its
\* own prefix, around secrets of one length
ValueLists ==
    UNION {{[i \in 1..n |-> pre[i] \o Token(len)] :
                pre \in [1..n -> ValuePrefixes], len \in 0..MaxTokenLen} :
           n \in 0..MaxValues}

Empty == <<"[", "E", "M", "P", "T", "Y", "]">>
Redacted == <<"[", "R", "E", "D", "A", "C", "T", "E", "D", "]">>
Ellipsis == <<".", ".", ".">>

HasPrefix(v, pre) == Len(v) >= Len(pre) /\ SubSeq(v, 1, Len(pre)) = pre

\* value[:3] + "..." + value[len(value)-4:]
FirstAndLast(v) == SubSeq(v, 1, 3) \o Ellipsis \o SubSeq(v, Len(v) - 3, Len(v))

\* the mask that redacts only values shorter than 8 bytes
maskSensitiveValueShort(v) ==
    IF Len(v) = 0 THEN Empty
    ELSE IF HasPrefix(v, BearerPrefix) \/ HasPrefix(v, bearerPrefix)
    THEN LET token == SubSeq(v, 8, Len(v))
         IN  IF Len(token) < 8 THEN BearerPrefix \o Redacted
             ELSE BearerPrefix \o FirstAndLast(token)
    ELSE IF Len(v) < 8 THEN Redacted
    ELSE FirstAndLast(v)

maskSensitiveValue(v) ==
    IF Len(v) = 0 THEN Empty
    ELSE IF HasPrefix(v, BearerPrefix) \/ HasPrefix(v, bearerPrefix)
    THEN LET token == SubSeq(v, 8, Len(v))
         IN  IF Len(token) <= 8 THEN BearerPrefix \o Redacted
             ELSE BearerPrefix \o FirstAndLast(token)
    ELSE IF Len(v) <= 8 THEN Redacted
    ELSE FirstAndLast(v)

\* one pass of the loop of sanitizeHeaders: the values of header k
sanitizeHeader(k, values) ==
    IF ToLower(k) \in sensitiveHeaders
    THEN [i \in 1..Len(values) |-> maskSensitiveValue(values[i])]
    ELSE values

sanitizeHeaders(headers) == [k \in DOMAIN headers |-> sanitizeHeader(k, headers[k])]

NoHeaders == [k \in {} |-> <<>>]

\* header maps of one name with a list of values, or of two names with
\* the same value
HeaderMaps ==
    {NoHeaders}
    \cup {(k :> vs) : k \in HeaderNames, vs \in ValueLists}
    \cup UNION {{(k1 :> <<v>>) @@ (k2 :> <<v>>) : k2 \in HeaderNames \ {k1}, v \in HeaderValues} :
                 k1 \in HeaderNames}

SanStart(headers) ==
    [state |-> "ranging", given |-> headers, headers |-> headers, sanitized |-> NoHeaders]

SanIdle == [SanStart(NoHeaders) EXCEPT !.state = "idle"]

\* the loop over the map, in any order of its keys
SanitizeKey(k) ==
    /\ san.state = "ranging"
    /\ k \in DOMAIN san.headers \ DOMAIN san.sanitized
    /\ san' = [san EXCEPT !.sanitized = MapPut(@, k, sanitizeHeader(k, san.headers[k]))]
    /\ UNCHANGED <<sse, med, trc>>
    /\ UNCHANGED <<workerVars, tamperVars, verifierVars, streamVars, storeVars>>

SanitizeReturn ==
    /\ san.state = "ranging"
    /\ DOMAIN san.sanitized = DOMAIN san.headers
    /\ san' = [san EXCEPT !.state = "returned"]
    /\ UNCHANGED <<sse, med, trc>>
    /\ UNCHANGED <<workerVars, tamperVars, verifierVars, streamVars, storeVars>>

NextSan ==
    \/ \E k \in HeaderNames : SanitizeKey(k)
    \/ SanitizeReturn

(***************************************************************************)
(* Media extraction (Extractor.ExtractFromBody).  A body is the sequence   *)
(* of the matches of base64ImagePattern in it, each followed by text that  *)
(* is not Base64; a match is "data:image/<type>;base64," and a payload of  *)
(* n bytes: n - pad letters "A", then pad signs "=".                       *)
(***************************************************************************)
MaxMatches == 2

ImageTypes == {"png", "gif"}
PayloadLengths == {1364, 1368, 1369}
Paddings == {0, 1}
MinSizes == {0, 1}

Images == [type : ImageTypes, n : PayloadLengths, pad : Paddings]

MediaBodies == UNION {[1..n -> Images] : n \in 0..MaxMatches}

\* base64.StdEncoding.DecodeString on a payload of the model
DecodeOK(img) == img.n % 4 = 0

DecodedLen(img) == (img.n \div 4) * 3 - img.pad

\* (len(base64Data) * 3) / 4, then / 1024
EstimatedKB(img) == ((img.n * 3) \div 4) \div 1024

\* the text of match y is found at the start of the text of match x
StartsWith(x, y) ==
    /\ x.type = y.type
    /\ \/ y.pad = 0 /\ y.n <= x.n - x.pad
       \/ y.pad > 0 /\ y.n - y.pad = x.n - x.pad /\ y.pad <= x.pad

\* a stretch of the body: a match as it came, or a placeholder and what is
\* left of the match behind it
Inline(img) == [placeholder |-> -1, image |-> img, rest |-> 0]
Placeholder(i, rest) == [placeholder |-> i, image |-> [type |-> "", n |-> 0, pad |-> 0],
                         rest |-> rest]

\* the first stretch of the body that holds the text of match y, 0 if none
FirstOccurrence(body, y) ==
    LET hits == {j \in 1..Len(body) : body[j].placeholder = -1 /\ StartsWith(body[j].image, y)}
    IN  IF hits = {} THEN 0 ELSE CHOOSE j \in hits : \A h \in hits : j <= h

\* strings.Replace(modifiedBody, fullMatch, placeholder, 1)
ReplaceFirst(body, y, index) ==
    LET j == FirstOccurrence(body, y)
    IN  IF j = 0 THEN body
        ELSE [body EXCEPT ![j] = Placeholder(index, body[j].image.n - y.n)]

MediaReference(img, index, pos) ==
    [Type |-> "image/" \o img.type, SizeBytes |-> DecodedLen(img), Placeholder |-> index,
     match |-> pos]

MedStart(enabled, minSizeKB, body, saveOK) ==
    [state |-> "matching", enabled |-> enabled, minSizeKB |-> minSizeKB, body |-> body,
     saveOK |-> saveOK, pos |-> 1, index |-> 0,
     modifiedBody |-> [i \in 1..Len(body) |-> Inline(body[i])], references |-> <<>>]

MedIdle == [MedStart(FALSE, 0, <<>>, <<>>) EXCEPT !.state = "idle"]

\* one pass of the loop over the matches
extractMatch(m) ==
    LET img == m.body[m.pos]
        next == [m EXCEPT !.pos = @ + 1]
    IN  IF EstimatedKB(img) < m.minSizeKB THEN next
        ELSE IF ~DecodeOK(img) THEN next
        ELSE IF ~m.saveOK[m.pos] THEN next
        ELSE [next EXCEPT !.references = Append(@, MediaReference(img, m.index, m.pos)),
                          !.modifiedBody = ReplaceFirst(@, img, m.index),
                          !.index = @ + 1]

ExtractDisabled ==
    /\ med.state = "matching"
    /\ ~med.enabled \/ med.body = <<>>
    /\ med' = [med EXCEPT !.state = "returned"]
    /\ UNCHANGED <<sse, san, trc>>
    /\ UNCHANGED <<workerVars, tamperVars, verifierVars, streamVars, storeVars>>

ExtractMatch ==
    /\ med.state = "matching"
    /\ med.enabled
    /\ med.pos <= Len(med.body)
    /\ med' = extractMatch(med)
    /\ UNCHANGED <<sse, san, trc>>
    /\ UNCHANGED <<workerVars, tamperVars, verifierVars, streamVars, storeVars>>

ExtractReturn ==
    /\ med.state = "matching"
    /\ med.enabled /\ med.body # <<>>
    /\ med.pos > Len(med.body)
    /\ med' = [med EXCEPT !.state = "returned"]
    /\ UNCHANGED <<sse, san, trc>>
    /\ UNCHANGED <<workerVars, tamperVars, verifierVars, streamVars, storeVars>>

NextMed ==
    \/ ExtractDisabled
    \/ ExtractMatch
    \/ ExtractReturn

(***************************************************************************)
(* EnrichTraceContext, one detection after the other                       *)
(* (internal/trace/detector.go:189-220).                                   *)
(***************************************************************************)
TrcStart(trace, requestBody, responseBody) ==
    [state |-> "calls", trace |-> trace, requestBody |-> requestBody,
     responseBody |-> responseBody]

TrcIdle == [TrcStart(NoTrace, NotJSON, NotJSON) EXCEPT !.state = "idle"]

\* the trace is nil: EnrichTraceContext returns at once
EnrichNil ==
    /\ trc.state = "calls"
    /\ ~trc.trace.present
    /\ trc' = [trc EXCEPT !.state = "returned"]
    /\ UNCHANGED <<sse, san, med>>
    /\ UNCHANGED <<workerVars, tamperVars, verifierVars, streamVars, storeVars>>

EnrichToolCall ==
    /\ trc.state = "calls"
    /\ trc.trace.present
    /\ LET toolCall == DetectToolCalls(trc.responseBody)
       IN  trc' = IF toolCall.present
                  THEN [trc EXCEPT !.state = "returned",
                                   !.trace.ToolCall = toolCall,
                                   !.trace.SpanType = "TOOL_CALL",
                                   !.trace.SpanName = GenerateSpanName("TOOL_CALL", toolCall,
                                                                       NoToolResult)]
                  ELSE [trc EXCEPT !.state = "results"]
    /\ UNCHANGED <<sse, san, med>>
    /\ UNCHANGED <<workerVars, tamperVars, verifierVars, streamVars, storeVars>>

EnrichToolResult ==
    /\ trc.state = "results"
    /\ LET toolResult == DetectToolResults(trc.requestBody)
       IN  trc' = IF toolResult.present
                  THEN [trc EXCEPT !.state = "returned",
                                   !.trace.ToolResult = toolResult,
                                   !.trace.SpanType = "TOOL_RESULT",
                                   !.trace.SpanName = GenerateSpanName("TOOL_RESULT", NoToolCall,
                                                                       toolResult)]
                  ELSE [trc EXCEPT !.state = "content"]
    /\ UNCHANGED <<sse, san, med>>
    /\ UNCHANGED <<workerVars, tamperVars, verifierVars, streamVars, storeVars>>

EnrichSpanType ==
    /\ trc.state = "content"
    /\ LET spanType == DetermineSpanType(trc.requestBody, trc.responseBody)
       IN  trc' = [trc EXCEPT !.state = "returned",
                              !.trace.SpanType = spanType,
                              !.trace.SpanName = GenerateSpanName(spanType, NoToolCall,
                                                                  NoToolResult)]
    /\ UNCHANGED <<sse, san, med>>
    /\ UNCHANGED <<workerVars, tamperVars, verifierVars, streamVars, storeVars>>

NextTrc ==
    \/ EnrichNil
    \/ EnrichToolCall
    \/ EnrichToolResult
    \/ EnrichSpanType

(***************************************************************************)
(* The steps of the goroutines of a request that a fair scheduler takes.   *)
(***************************************************************************)
\* the steps of the handler goroutine of request r that the scheduler and a
\* responding upstream make happen
HandlerStep(r) ==
    \/ ReserveStreaming(r)
    \/ UpstreamEOF(r)
    \/ Finalize(r, "h")
    \/ MirrorAppend(r)
    \/ MirrorCount(r)
    \/ MirrorTruncated(r)
    \/ WriteError(r)
    \/ CallbackBody(r, "h")
    \/ CallbackReconstruct(r, "h")
    \/ CallbackPanic(r, "h")
    \/ CallbackIsComplete(r, "h")
    \/ CallbackError(r, "h")
    \/ CallbackTruncated(r, "h")
    \/ CallbackTruncatedAt(r, "h")
    \/ CallbackLog(r, "h")
    \/ HandlerCancel(r)
    \/ ReserveRegular(r)
    \/ RegularLog(r)
    \/ RegularPanic(r)

\* the steps of the monitoring goroutine of request r
MonitorStep(r) ==
    \/ MonitorWake(r)
    \/ MonitorSetError(r)
    \/ MonitorSetIncomplete(r)
    \/ Finalize(r, "m")
    \/ CallbackBody(r, "m")
    \/ CallbackReconstruct(r, "m")
    \/ CallbackPanic(r, "m")
    \/ CallbackIsComplete(r, "m")
    \/ CallbackError(r, "m")
    \/ CallbackTruncated(r, "m")
    \/ CallbackTruncatedAt(r, "m")
    \/ CallbackLog(r, "m")

(***************************************************************************)
(* FileStorage.Write called from several goroutines (file_storage.go).     *)
(* os.File.Write loops until every byte is written, so the record and its  *)
(* newline may reach the file in more than one block.                      *)
(***************************************************************************)
NumCallers == 2
Callers == 1..NumCallers
MaxStoreCalls == 3
MaxStoreFaults == 2

\* first bytes of a record; the rest of the record with its newline
RecordHead == "head"
RecordTail == "tail\n"

StoreIdle == [pc |-> "idle", entry |-> 0]

InitStore ==
    /\ fsMu = 0
    /\ fsCall = [c \in Callers |-> StoreIdle]
    /\ fsFile = <<>>
    /\ fsSynced = 0
    /\ fsReturned = {}
    /\ fsNext = 0

\* number of calls that have returned an error
StoreFaults == Cardinality({x \in fsReturned : ~x.ok})

\* return err / return nil, and the deferred fs.mu.Unlock()
StoreReturn(c, ok) ==
    /\ fsReturned' = fsReturned \cup {[entry |-> fsCall[c].entry, ok |-> ok]}
    /\ fsCall' = [fsCall EXCEPT ![c] = StoreIdle]
    /\ fsMu' = IF fsMu = c THEN 0 ELSE fsMu

\* a caller that acquires nothing: Write without fs.mu.Lock()
StoreLockFree(c) ==
    /\ fsCall[c].pc = "idle"
    /\ fsNext < MaxStoreCalls
    /\ fsNext' = fsNext + 1
    /\ fsCall' = [fsCall EXCEPT ![c] = [pc |-> "marshal", entry |-> fsNext + 1]]
    /\ UNCHANGED <<fsMu, fsFile, fsSynced, fsReturned>>
    /\ UNCHANGED mediaVars
    /\ UNCHANGED <<workerVars, tamperVars, verifierVars, streamVars, pureVars>>

\* fs.mu.Lock(): the caller waits until the mutex is free
StoreLock(c) ==
    /\ fsCall[c].pc = "idle"
    /\ fsNext < MaxStoreCalls
    /\ fsMu = 0
    /\ fsMu' = c
    /\ fsNext' = fsNext + 1
    /\ fsCall' = [fsCall EXCEPT ![c] = [pc |-> "marshal", entry |-> fsNext + 1]]
    /\ UNCHANGED <<fsFile, fsSynced, fsReturned>>
    /\ UNCHANGED mediaVars
    /\ UNCHANGED <<workerVars, tamperVars, verifierVars, streamVars, pureVars>>

\* json.Marshal(entry) and append(data, '\n')
StoreMarshal(c, ok) ==
    /\ fsCall[c].pc = "marshal"
    /\ IF ok
       THEN /\ fsCall' = [fsCall EXCEPT ![c].pc = "write"]
            /\ UNCHANGED <<fsMu, fsReturned>>
       ELSE /\ StoreFaults < MaxStoreFaults
            /\ StoreReturn(c, FALSE)
    /\ UNCHANGED <<fsFile, fsSynced, fsNext>>
    /\ UNCHANGED mediaVars
    /\ UNCHANGED <<workerVars, tamperVars, verifierVars, streamVars, pureVars>>

\* fs.file.Write(data), first block: nothing is written when it fails
StoreWriteHead(c, ok) ==
    /\ fsCall[c].pc = "write"
    /\ IF ok
       THEN /\ fsFile' = Append(fsFile, [entry |-> fsCall[c].entry, block |-> RecordHead])
            /\ fsCall' = [fsCall EXCEPT ![c].pc = "write_tail"]
            /\ UNCHANGED <<fsMu, fsReturned>>
       ELSE /\ StoreFaults < MaxStoreFaults
            /\ StoreReturn(c, FALSE)
            /\ UNCHANGED fsFile
    /\ UNCHANGED <<fsSynced, fsNext>>
    /\ UNCHANGED mediaVars
    /\ UNCHANGED <<workerVars, tamperVars, verifierVars, streamVars, pureVars>>

\* fs.file.Write(data), the rest: when it fails the first block stays
StoreWriteTail(c, ok) ==
    /\ fsCall[c].pc = "write_tail"
    /\ IF ok
       THEN /\ fsFile' = Append(fsFile, [entry |-> fsCall[c].entry, block |-> RecordTail])
            /\ fsCall' = [fsCall EXCEPT ![c].pc = "sync"]
            /\ UNCHANGED <<fsMu, fsReturned>>
       ELSE /\ StoreFaults < MaxStoreFaults
            /\ StoreReturn(c, FALSE)
            /\ UNCHANGED fsFile
    /\ UNCHANGED <<fsSynced, fsNext>>
    /\ UNCHANGED mediaVars
    /\ UNCHANGED <<workerVars, tamperVars, verifierVars, streamVars, pureVars>>

\* fs.file.Sync() and the return
StoreSync(c, ok) ==
    /\ fsCall[c].pc = "sync"
    /\ IF ok
       THEN /\ fsSynced' = Len(fsFile)
            /\ StoreReturn(c, TRUE)
       ELSE /\ StoreFaults < MaxStoreFaults
            /\ StoreReturn(c, FALSE)
            /\ UNCHANGED fsSynced
    /\ UNCHANGED <<fsFile, fsNext>>
    /\ UNCHANGED mediaVars
    /\ UNCHANGED <<workerVars, tamperVars, verifierVars, streamVars, pureVars>>

(***************************************************************************)
(* Media files on disk (Extractor.saveMedia) over restarts of the proxy.   *)
(***************************************************************************)
MaxMediaSeq == 2
MaxDay == 1
NumMediaRequests == 2
MediaRequests == 1..NumMediaRequests

\* the numbers of images to save in the request and the response body of an
\* exchange
ExchangeImages == {[req |-> 2, resp |-> 0], [req |-> 1, resp |-> 1]}

\* a request that extracts no media (at: "idle", or the body "request" or
\* "response" whose images are being saved; left: images of that body still
\* to save; resp: images of the response body; index: images saved from the
\* body so far; no: number of the image in its body)
NoMediaJob == [at |-> "idle", seq |-> 0, run |-> 0, ext |-> "", left |-> 0, resp |-> 0,
               index |-> 0, no |-> 0]

InitMedia ==
    /\ mediaDir = {}
    /\ mediaRun = 0
    /\ mediaDay = 0
    /\ mediaJob = [q \in MediaRequests |-> NoMediaJob]

\* filepath.Join(dateDir, fmt.Sprintf("seq_%d_%s_%d.%s", ...))
MediaPath(day, sequenceID, bodyType, index, imageType) ==
    [date |-> day, seq |-> sequenceID, bodyType |-> bodyType, index |-> index,
     ext |-> imageType]

\* what a call of saveMedia meets: "ok"; "mkdir": os.MkdirAll fails; "open":
\* os.WriteFile cannot open the file; "partial": os.WriteFile has created
\* or truncated the file and fails before all the data is in it
SaveOutcomes == {"ok", "mkdir", "open", "partial"}

\* Extractor.saveMedia (part_008:559-582), the date being read by the call:
\* the directory after the call and whether the call returned no error;
\* os.WriteFile creates the file or truncates the one that exists
saveMedia(dir, data, day, sequenceID, bodyType, index, imageType, outcome) ==
    LET path == MediaPath(day, sequenceID, bodyType, index, imageType)
        others == {f \in dir : f.path # path}
    IN  CASE outcome = "ok" ->
               [dir |-> others \cup {[path |-> path, data |-> data, complete |-> TRUE]},
                ok |-> TRUE]
          [] outcome = "partial" ->
               [dir |-> others \cup {[path |-> path, data |-> data, complete |-> FALSE]},
                ok |-> FALSE]
          [] OTHER -> [dir |-> dir, ok |-> FALSE]

\* extractMediaFromBodies (part_005:246-269): ExtractFromBody on the request
\* body, then on the response body, then the handler goes on
NextBody(job) ==
    IF job.at = "request" /\ job.left = 0
    THEN (IF job.resp = 0 THEN NoMediaJob
          ELSE [job EXCEPT !.at = "response", !.left = job.resp, !.index = 0, !.no = 0])
    ELSE IF job.at = "response" /\ job.left = 0 THEN NoMediaJob
    ELSE job

\* the variables of the proxy handler other than its sequence counter
handlerRest == <<pc, ret, kind, seqID, ctxErr, clientGone, rc, snap, upstream, client,
                 nWrites, cbRuns, mfault, reservations, logCalls, cause, finCalls, req,
                 reply, proxied>>

\* one exchange reaches getNextSequenceID (part_005:241, an atomic add) and
\* goes on to extractMediaFromBodies with a request body of nReq and a
\* response body of nResp images that are large enough and decode
MediaReserve(q, nReq, nResp, imageType) ==
    /\ mediaJob[q].at = "idle"
    /\ nextSequenceID + mediaRun < MaxMediaSeq
    /\ nextSequenceID' = nextSequenceID + 1
    /\ mediaJob' = [mediaJob EXCEPT ![q] =
                       NextBody([at |-> "request", seq |-> nextSequenceID, run |-> mediaRun,
                                 ext |-> imageType, left |-> nReq, resp |-> nResp,
                                 index |-> 0, no |-> 0])]
    /\ UNCHANGED <<mediaDir, mediaRun, mediaDay>>
    /\ UNCHANGED <<fsMu, fsCall, fsFile, fsSynced, fsReturned, fsNext>>
    /\ UNCHANGED <<workerVars, tamperVars, verifierVars, pureVars, handlerRest>>

\* one pass of the loop of ExtractFromBody (part_008:504-552) over an image
\* that is to be saved: saveMedia with the date of the moment, and the
\* index goes up when the image was saved
HandleMedia(q, outcome) ==
    /\ mediaJob[q].at # "idle"
    /\ LET job == mediaJob[q]
           res == saveMedia(mediaDir, <<job.run, job.seq, job.at, job.no>>, mediaDay,
                            job.seq, job.at, job.index, job.ext, outcome)
       IN  /\ mediaDir' = res.dir
           /\ mediaJob' = [mediaJob EXCEPT ![q] =
                              NextBody([job EXCEPT !.left = @ - 1, !.no = @ + 1,
                                                   !.index = IF res.ok THEN @ + 1 ELSE @])]
    /\ UNCHANGED <<mediaRun, mediaDay, nextSequenceID>>
    /\ UNCHANGED <<fsMu, fsCall, fsFile, fsSynced, fsReturned, fsNext>>
    /\ UNCHANGED <<workerVars, tamperVars, verifierVars, pureVars, handlerRest>>

\* the proxy is stopped and started again: the requests in hand are gone,
\* NewHandler leaves the counter at zero
MediaRestart ==
    /\ mediaRun < MaxRestarts
    /\ mediaRun' = mediaRun + 1
    /\ nextSequenceID' = 0
    /\ mediaJob' = [q \in MediaRequests |-> NoMediaJob]
    /\ UNCHANGED <<mediaDir, mediaDay>>
    /\ UNCHANGED <<fsMu, fsCall, fsFile, fsSynced, fsReturned, fsNext>>
    /\ UNCHANGED <<workerVars, tamperVars, verifierVars, pureVars, handlerRest>>

\* time.Now() moves to the next date
DayPasses ==
    /\ mediaDay < MaxDay
    /\ mediaDay' = mediaDay + 1
    /\ UNCHANGED <<mediaDir, mediaRun, mediaJob, nextSequenceID>>
    /\ UNCHANGED <<fsMu, fsCall, fsFile, fsSynced, fsReturned, fsNext>>
    /\ UNCHANGED <<workerVars, tamperVars, verifierVars, pureVars, handlerRest>>

InitPure ==
    /\ sse = SSEIdle
    /\ san = SanIdle
    /\ med = MedIdle
    /\ trc = TrcIdle

vars == <<workerVars, tamperVars, verifierVars, streamVars, pureVars, storeVars>>

(***************************************************************************)
(* Specifications.                                                         *)
(***************************************************************************)
\* the worker with a journal store that may fail on any entry
Init ==
    /\ InitWorker
    /\ faults \in {f \in [SeqIDs -> FaultKinds] :
                        Cardinality({q \in SeqIDs : f[q] # "ok"}) <= MaxFaults}
    /\ payloads = {"plain"}
    /\ InitTamper
    /\ InitVerifier
    /\ InitStream
    /\ InitStore
    /\ InitMedia
    /\ InitPure

Next == NextWorker

Spec == Init /\ [][Next]_vars

\* the worker on a healthy journal store, entries with and without trace
\* context, then an editor of the closed journal
InitHash ==
    /\ InitWorker
    /\ faults = [s \in SeqIDs |-> "ok"]
    /\ payloads \in {{"plain", p} : p \in PayloadNames}
    /\ InitTamper
    /\ InitVerifier
    /\ InitStream
    /\ InitStore
    /\ InitMedia
    /\ InitPure

NextHash ==
    \/ NextWorker
    \/ Tamper

SpecHash == InitHash /\ [][NextHash]_vars

\* the worker on a healthy journal store with entries arriving late
InitOrder ==
    /\ InitWorker
    /\ faults = [s \in LateSeqIDs |-> "ok"]
    /\ payloads = {"plain"}
    /\ InitTamper
    /\ InitVerifier
    /\ InitStream
    /\ InitStore
    /\ InitMedia
    /\ InitPure

NextOrder ==
    \/ \E seq \in LateSeqIDs : Log(seq, "plain")
    \/ WorkerReceive
    \/ WorkerHandle
    \/ WorkerDrain
    \/ WorkerDelete
    \/ Shutdown
    \/ WorkerRangeEnds
    \/ WorkerShutdownDrain
    \/ WorkerClearPending
    \/ WorkerCloseStorage
    \/ WorkerExit

SpecOrder == InitOrder /\ [][NextOrder]_vars

\* the worker on a healthy journal store, started again after its shutdown
NextRestart ==
    \/ \E seq \in SeqIDs : Log(seq, "plain")
    \/ WorkerReceive
    \/ WorkerHandle
    \/ WorkerDrain
    \/ WorkerDelete
    \/ Shutdown
    \/ WorkerRangeEnds
    \/ WorkerShutdownDrain
    \/ WorkerClearPending
    \/ WorkerCloseStorage
    \/ WorkerExit
    \/ Restart

SpecRestart == InitOrder /\ [][NextRestart]_vars

\* the verifier on a journal file
InitVerify ==
    /\ InitWorker
    /\ faults = [s \in SeqIDs |-> "ok"]
    /\ payloads = {"plain"}
    /\ InitTamper
    /\ InitVerifier
    /\ InitStream
    /\ InitStore
    /\ InitMedia
    /\ InitPure

NextVerify == NextVerifier

SpecVerify == InitVerify /\ [][NextVerify]_vars

\* the proxy handler serving requests, with the audit worker behind it
InitStream0 ==
    /\ InitWorker
    /\ faults = [s \in SeqIDs |-> "ok"]
    /\ payloads = {"plain"}
    /\ InitTamper
    /\ InitVerifier
    /\ InitStream
    /\ InitStore
    /\ InitMedia
    /\ InitPure

\* (one request is served, so that its entry is the one the worker expects
\* and the drain loop finds no entry to write and delete)
NextStreamAll ==
    \/ NextStream
    \/ \E r \in FaultyRequests, g \in {"h", "m"} : CallbackPanic(r, g)
    \/ \E r \in FaultyRequests : RegularPanic(r)
    \/ WorkerReceive
    \/ WorkerHandle
    \/ WorkerDrain

SpecStream == InitStream0 /\ [][NextStreamAll]_vars

\* one streaming request with a response of at most one chunk and every
\* failure of the client, the forwarding and the monitoring task; the
\* monitoring goroutine is scheduled and the stream timer fires, while the
\* upstream and the handler goroutine may stall for ever
NextStreamLive ==
    \/ \E r \in FaultyRequests : Arrive(r, "streaming", <<"/", "o", "/", "c">>, TRUE)
    \/ \E r \in FaultyRequests : ReserveStreaming(r)
    \/ \E r \in FaultyRequests, data \in {<<"x">>, <<PoisonLetter>>} :
          nWrites[r] = 0 /\ UpstreamWrite(r, data)
    \/ \E r \in FaultyRequests : MirrorAppend(r)
    \/ \E r \in FaultyRequests : MirrorCount(r)
    \/ \E r \in FaultyRequests : nWrites[r] = 0 /\ UpstreamWriteFail(r, <<"x">>, 0)
    \/ \E r \in FaultyRequests : WriteError(r)
    \/ \E r \in FaultyRequests : UpstreamEOF(r)
    \/ \E r \in FaultyRequests, panics \in BOOLEAN : ProxyAbort(r, panics)
    \/ \E r \in FaultyRequests, g \in {"h", "m"} : Finalize(r, g)
    \/ \E r \in FaultyRequests, g \in {"h", "m"} : CallbackBody(r, g)
    \/ \E r \in FaultyRequests, g \in {"h", "m"} : CallbackReconstruct(r, g)
    \/ \E r \in FaultyRequests, g \in {"h", "m"} : CallbackIsComplete(r, g)
    \/ \E r \in FaultyRequests, g \in {"h", "m"} : CallbackError(r, g)
    \/ \E r \in FaultyRequests, g \in {"h", "m"} : CallbackTruncated(r, g)
    \/ \E r \in FaultyRequests, g \in {"h", "m"} : CallbackTruncatedAt(r, g)
    \/ \E r \in FaultyRequests, g \in {"h", "m"} : CallbackLog(r, g)
    \/ \E r \in FaultyRequests, g \in {"h", "m"} : CallbackPanic(r, g)
    \/ \E r \in FaultyRequests : HandlerCancel(r)
    \/ \E r \in FaultyRequests : ClientDisconnect(r)
    \/ \E r \in FaultyRequests : DeadlineExpires(r)
    \/ \E r \in FaultyRequests : MonitorWake(r)
    \/ \E r \in FaultyRequests : MonitorSetError(r)
    \/ \E r \in FaultyRequests : MonitorPanic(r)
    \/ \E r \in FaultyRequests : MonitorSetIncomplete(r)
    \/ WorkerReceive
    \/ WorkerHandle
    \/ WorkerDrain

SpecStreamLive ==
    /\ InitStream0
    /\ [][NextStreamLive]_vars
    /\ \A r \in FaultyRequests : WF_vars(MonitorStep(r)) /\ WF_vars(DeadlineExpires(r))

\* the proxy handler serving concurrent requests, with the audit worker
NextSeqAll ==
    \/ NextSeq
    \/ \E r \in Requests, g \in {"h", "m"} : CallbackPanic(r, g)
    \/ \E r \in Requests : RegularPanic(r)
    \/ WorkerReceive
    \/ WorkerHandle
    \/ WorkerDrain
    \/ WorkerDelete

SpecSeq == InitStream0 /\ [][NextSeqAll]_vars

\* the same with handler goroutines that are scheduled and a worker that
\* keeps receiving from its channel
SpecSeqLive ==
    /\ SpecSeq
    /\ \A r \in Requests : WF_vars(HandlerStep(r))
    /\ WF_entries(Receives)
    /\ WF_<<loopAt, expectedSeq>>(Handles)

\* the reconstruction of one streamed response body
InitSSE ==
    /\ InitWorker
    /\ faults = [s \in SeqIDs |-> "ok"]
    /\ payloads = {"plain"}
    /\ InitTamper
    /\ InitVerifier
    /\ InitStream
    /\ InitStore
    /\ InitMedia
    /\ sse \in {SSEStart(body) : body \in SSEBodies}
    /\ san = SanIdle
    /\ med = MedIdle
    /\ trc = TrcIdle

SpecSSE == InitSSE /\ [][NextSSE]_vars

\* the sanitisation of one header map
InitSan ==
    /\ InitWorker
    /\ faults = [s \in SeqIDs |-> "ok"]
    /\ payloads = {"plain"}
    /\ InitTamper
    /\ InitVerifier
    /\ InitStream
    /\ InitStore
    /\ InitMedia
    /\ sse = SSEIdle
    /\ san \in {SanStart(headers) : headers \in HeaderMaps}
    /\ med = MedIdle
    /\ trc = TrcIdle

SpecSan == InitSan /\ [][NextSan]_vars

\* the extraction of the images of one body; the file system may fail on
\* any save
InitMed ==
    /\ InitWorker
    /\ faults = [s \in SeqIDs |-> "ok"]
    /\ payloads = {"plain"}
    /\ InitTamper
    /\ InitVerifier
    /\ InitStream
    /\ InitStore
    /\ InitMedia
    /\ sse = SSEIdle
    /\ san = SanIdle
    /\ med \in {MedStart(enabled, minSizeKB, body, saveOK) :
                    enabled \in BOOLEAN, minSizeKB \in MinSizes, body \in MediaBodies,
                    saveOK \in [1..MaxMatches -> BOOLEAN]}
    /\ trc = TrcIdle

SpecMed == InitMed /\ [][NextMed]_vars

\* the classification of one request and response
InitTrc ==
    /\ InitWorker
    /\ faults = [s \in SeqIDs |-> "ok"]
    /\ payloads = {"plain"}
    /\ InitTamper
    /\ InitVerifier
    /\ InitStream
    /\ InitStore
    /\ InitMedia
    /\ sse = SSEIdle
    /\ san = SanIdle
    /\ med = MedIdle
    /\ trc \in {TrcStart(trace, requestBody, responseBody) :
                    trace \in {NoTrace, NewTrace}, requestBody \in RequestBodies,
                    responseBody \in ResponseBodies}

SpecTrc == InitTrc /\ [][NextTrc]_vars

(***************************************************************************)
(* Properties.                                                             *)
(***************************************************************************)
AllWritesSucceed == \A s \in SeqIDs : faults[s] = "ok"

\* the SequenceIDs of the entries passed to storage.Write, in order
WrittenSeqs == [i \in DOMAIN writes |-> writes[i].entry.SequenceID]

WritesHow(h) == {i \in DOMAIN writes : writes[i].how = h}

\* C1: when every storage write succeeds, the first entry written carries
\* the genesis hash as prev_hash and every later one the hash of the entry
\* written immediately before it, in storage.Write order and on disk
ChainContinuity ==
    AllWritesSucceed =>
        /\ \A i \in DOMAIN writes :
              writes[i].entry.PrevHash =
                 IF i = 1 THEN Sha256("genesis:" \o GenesisSeed) ELSE writes[i - 1].entry.Hash
        /\ Len(journal) = Len(writes)
        /\ \A i \in DOMAIN journal :
              /\ journal[i].kind = "json"
              /\ journal[i].SequenceID = writes[i].entry.SequenceID
              /\ i > 1 => journal[i].PrevHash = journal[i - 1].Hash

\* C1 witness: a finished run without write failures that went through the
\* in-order path, a pending-buffer overflow and the shutdown drain
ChainContinuityWitness ==
    /\ AllWritesSucceed
    /\ done
    /\ WritesHow("failopen") # {}
    /\ WritesHow("shutdown") # {}
    /\ Len(writes) >= 3

\* C2 (as claimed): every line the worker wrote has the hash the verifier
\* recomputes from it, and the verifier accepts the journal
HashFidelity ==
    (AllWritesSucceed /\ ~tampered) =>
        /\ \A i \in DOMAIN journal : calculateHash(journal[i]) = journal[i].Hash
        /\ verifyLog(journal) = ExitSuccess

\* C3 (as claimed): editing hashed fields of an entry of an accepted journal,
\* the stored hashes left alone, makes the verifier exit 2 or 3
TamperEvidence ==
    (tampered /\ verifyLog(original) = ExitSuccess
        /\ \E i \in DOMAIN journal :
              /\ HashedFields(journal[i]) # HashedFields(original[i])
              /\ journal[i].Hash = original[i].Hash)
    => verifyLog(journal) \in {ExitChainBroken, ExitDataTampered}

\* the worker waits at the receive of its run loop: it has finished with
\* every entry it took from the channel
AtReceive == loopAt = "range" /\ inHand = <<>>

\* the worker has left the range over the channel and has not yet returned:
\* it ranges over the pending map, is about to close the storage, or is
\* about to return
AfterRange == loopAt \in {"shutdown", "close", "exit"}

\* the number of entries written in sequence: expectedSeq, and one more
\* between the processEntry of the drain loop and its increment
WrittenInSequence == IF loopAt = "delete" THEN expectedSeq + 1 ELSE expectedSeq

\* C5: while the pending buffer has never been full, the entries written are
\* 0, 1, 2, ... in this order without Shutdown, and once the worker has
\* received and handled every one of 0..N each of them has been written
\* exactly once
InOrderWithoutShutdown ==
    pendingPeak < MaxPendingEntries =>
        /\ (~done /\ ~AfterRange) => WrittenSeqs = [i \in 1..WrittenInSequence |-> i - 1]
        /\ \A n \in SeqIDs :
              (logged = 0..n /\ entries = <<>> /\ AtReceive) =>
                 (WrittenSeqs = [i \in 1..(n + 1) |-> i - 1] /\ DOMAIN pendingEntries = {})

\* C5 witness: 0..N all written without Shutdown although two of them
\* arrived before their turn and waited in pending together
InOrderWithoutShutdownWitness ==
    /\ pendingPeak > 1
    /\ pendingPeak < MaxPendingEntries
    /\ ~chanClosed
    /\ entries = <<>>
    /\ AtReceive
    /\ logged = 0..2
    /\ Cardinality(WritesHow("drain")) = 2
    /\ Len(writes) = 3

\* C9: after Shutdown has returned every logged entry has been passed to
\* storage exactly once, the entries left in pending after all the others,
\* and storage.Close was called once, after the last write; storage.Close
\* is called only behind the range over the pending map, before Shutdown
\* returns, and no write follows it
ShutdownDrainsAll ==
    /\ done =>
        /\ \A s \in logged : Cardinality({i \in DOMAIN writes : WrittenSeqs[i] = s}) = 1
        /\ Len(writes) = Cardinality(logged)
        /\ \A i, j \in DOMAIN writes :
              (i < j /\ writes[i].how = "shutdown") => writes[j].how = "shutdown"
        /\ closes = <<Len(writes)>>
    /\ closes # <<>> =>
        /\ closes = <<Len(writes)>>
        /\ done \/ loopAt = "exit"
        /\ pendingEntries = <<>> /\ entries = <<>> /\ chanClosed

\* C9 witness: Shutdown has returned after in-order writes and a drain of
\* entries that were still waiting in pending
ShutdownDrainsAllWitness ==
    /\ done
    /\ Cardinality(logged) >= 3
    /\ WritesHow("inorder") # {}
    /\ Cardinality(WritesHow("shutdown")) >= 2

\* the parsed entry before line i of the file (0 when there is none)
PrevParsed(file, i) ==
    LET S == {j \in ParsedLines(file) : j < i}
    IN IF S = {} THEN 0 ELSE CHOOSE j \in S : \A k \in S : k <= j

ChainFails(file, i) ==
    PrevParsed(file, i) # 0 /\ file[i].PrevHash # file[PrevParsed(file, i)].Hash

HashFails(file, i) == calculateHash(file[i]) # file[i].Hash

FailingLines(file) == {i \in ParsedLines(file) : ChainFails(file, i) \/ HashFails(file, i)}

\* the exit code C8 gives for a file
ClaimedExit(file) ==
    IF FailingLines(file) = {} THEN ExitSuccess
    ELSE LET f == CHOOSE i \in FailingLines(file) : \A k \in FailingLines(file) : i <= k
         IN IF ChainFails(file, f) THEN ExitChainBroken ELSE ExitDataTampered

UnparseableLines(file) == {i \in DOMAIN file : file[i].kind \notin {"json", "oversize"}}

\* C8 (as claimed): the verifier's exit code is decided by the first failing
\* parsed entry alone, 2 for a chain mismatch, else 3, and 0 when none fails
VerifierOrderAsClaimed ==
    verifier.exit # Running => verifier.exit = ClaimedExit(vfile)

\* C8 (amended): the same, unless the verifier stopped before on the 11th
\* unparseable line (exit 4) or on a line the scanner cannot read (exit 5)
VerifierOrder ==
    verifier.exit # Running =>
        IF \E i \in DOMAIN vfile : vfile[i].kind = "oversize" THEN verifier.exit = ExitScanError
        ELSE IF Cardinality(UnparseableLines(vfile)) > MaxParseErrors
             THEN verifier.exit = ExitParseError
        ELSE verifier.exit = ClaimedExit(vfile)

\* C8 witness: the verifier stopped with exit 2 on an entry that fails both
\* checks, after a verified entry and an unparseable line
VerifierOrderWitness ==
    /\ verifier.exit = ExitChainBroken
    /\ HashFails(vfile, Len(vfile))
    /\ verifier.errorCount > 0
    /\ Cardinality(ParsedLines(vfile)) >= 2

\* the hash of the last parsed line scanned ("" when there is none)
LastParsedHash(file) ==
    IF ParsedLines(file) = {} THEN "" ELSE file[PrevParsed(file, Len(file) + 1)].Hash

\* what C13 says of unparseable lines: they are counted and skipped, the
\* expected previous hash stays that of the last parsed entry, and the
\* verifier stops with exit 4 at the eleventh of them and not before
SkipsUnparseable ==
    /\ verifier.errorCount = Cardinality(UnparseableLines(vfile))
    /\ verifier.exit = ExitParseError <=> Cardinality(UnparseableLines(vfile)) = MaxParseErrors + 1
    /\ Cardinality(UnparseableLines(vfile)) <= MaxParseErrors + 1
    /\ verifier.exit \notin {ExitChainBroken, ExitDataTampered} =>
           verifier.expectedPrevHash = LastParsedHash(vfile)

\* C13 (as claimed): unparseable lines are skipped as above, and a file
\* with at most 10 of them whose parsed entries are chain- and
\* hash-consistent exits 0
ParseErrorToleranceAsClaimed ==
    /\ SkipsUnparseable
    /\ (verifier.exit # Running /\ Cardinality(UnparseableLines(vfile)) <= MaxParseErrors
            /\ FailingLines(vfile) = {}) => verifier.exit = ExitSuccess

\* C13 (amended): the same for a file the scanner reads to its end; a file
\* with a line the scanner cannot read exits 5 instead
ParseErrorTolerance ==
    /\ SkipsUnparseable
    /\ (verifier.exit # Running /\ Cardinality(UnparseableLines(vfile)) <= MaxParseErrors
            /\ FailingLines(vfile) = {}) =>
           verifier.exit = IF \E i \in DOMAIN vfile : vfile[i].kind = "oversize"
                           THEN ExitScanError ELSE ExitSuccess

\* C13 witness: exit 0 on a file with 10 unparseable lines, some of them
\* between two parsed entries
ParseErrorToleranceWitness ==
    /\ verifier.exit = ExitSuccess
    /\ verifier.errorCount = MaxParseErrors
    /\ Cardinality(ParsedLines(vfile)) >= 2
    /\ \E i, j, k \in DOMAIN vfile :
          i < j /\ j < k /\ vfile[i].kind = "json" /\ vfile[j].kind # "json" /\ vfile[k].kind = "json"

(***************************************************************************)
(* Properties of the capturer and the proxy handler.                       *)
(***************************************************************************)
\* the entries passed to Worker.Log for request r
EntriesOf(r) == {i \in 1..Len(logCalls) : logCalls[i].SequenceID = seqID[r]}

\* C4: for a streaming capture the completion callback has been invoked
\* exactly once as soon as a call of finalize has won, it is never invoked a
\* second time whichever paths call finalize (Complete, the monitor, Write on
\* a forwarding error, the monitor after a fault), and at most one entry is
\* logged
CallbackOnce ==
    \A r \in Requests :
       (kind[r] = "streaming" /\ seqID[r] # -1) =>
          /\ cbRuns[r] <= 1
          /\ rc[r].completed => cbRuns[r] = 1
          /\ (finCalls[r] > 0 /\ pc[r].h # "finalize" /\ pc[r].m # "finalize") => cbRuns[r] = 1
          /\ Cardinality(EntriesOf(r)) <= 1

\* three paths have called finalize (Write on a forwarding error, Complete,
\* the monitor) and the callback has run once
CallbackOnceWitness ==
    \E r \in Requests :
       /\ kind[r] = "streaming"
       /\ rc[r].writeErr
       /\ finCalls[r] = 3
       /\ cbRuns[r] = 1
       /\ pc[r].h = "done" /\ pc[r].m = "done"

\* C6: the sequence numbers the handler's counter hands out are, in order of
\* reservation, 0, 1, 2, ..., and the requests holding one hold distinct ones
SequenceNumbers ==
    /\ \A i \in 1..Len(reservations) : reservations[i] = i - 1
    /\ \A r1, r2 \in Requests :
          (r1 # r2 /\ seqID[r1] # -1 /\ seqID[r2] # -1) => seqID[r1] # seqID[r2]
    /\ nextSequenceID = Len(reservations)

\* a streaming and a regular request hold sequence numbers while both run
SequenceNumbersWitness ==
    \E r1, r2 \in Requests :
       /\ kind[r1] = "streaming" /\ kind[r2] = "regular"
       /\ seqID[r1] # -1 /\ seqID[r2] # -1
       /\ pc[r1].h = "proxy" /\ pc[r2].h = "log_regular"
       /\ seqID[r2] < seqID[r1]

\* a call of Write by the handler goroutine of request r is under way
Writing(r) == pc[r].h \in {"w_body", "w_size", "w_trunc", "w_error"}

\* C7 (as claimed; the code violates it): for a request that was given a
\* capturer, as long as no write to the client has failed, the bytes the
\* client's writer has taken are the bytes the upstream side wrote, in the
\* same order, whether or not the audit mirror was truncated
ByteIdenticalForwarding ==
    \A r \in proxied :
       (~rc[r].writeErr /\ pc[r].h # "w_error") => client[r] = upstream[r]

\* the bytes that ResponseCapturer.Write itself has passed to the client's
\* writer are the bytes the upstream side wrote
CapturerForwardsAll ==
    \A r \in proxied :
       (~rc[r].writeErr /\ pc[r].h # "w_error") =>
           SelectSeq(client[r], LAMBDA b : <<b>> # ErrorPage) = upstream[r]

\* a streaming response longer than the mirror's limit was forwarded whole
ForwardedBeyondLimit ==
    \E r \in Requests :
       /\ kind[r] = "streaming"
       /\ ~rc[r].writeErr
       /\ rc[r].truncated
       /\ Len(rc[r].body) < Len(upstream[r])
       /\ Len(client[r]) > MaxAuditBodySize
       /\ client[r] = upstream[r]

\* the client has got the whole event stream of the upstream and behind it
\* the error page of ServeHTTP's recover
ErrorPageBehindResponse ==
    \E r \in Requests :
       /\ ~rc[r].writeErr
       /\ pc[r].h = "done"
       /\ upstream[r] # <<>>
       /\ client[r] = upstream[r] \o ErrorPage

\* the upstream of request r has sent an event that reconstructOpenAIStream
\* panics on
Poisoned(r) == \E i \in DOMAIN upstream[r] : upstream[r][i] = PoisonLetter

\* C10 (as claimed; the code violates it): a streaming request whose
\* context was cancelled by a client disconnect during proxying, with no
\* write failure and no monitor fault, has one entry with is_streaming=true,
\* is_complete=false and error=CLIENT_DISCONNECT once both goroutines are
\* done; if the deadline expired instead, the error is STREAM_TIMEOUT
DisconnectEntry ==
    \A r \in Requests :
       (/\ kind[r] = "streaming"
        /\ cause[r] \in {"client", "deadline"}
        /\ ~rc[r].writeErr /\ ~mfault[r] /\ ~Poisoned(r)
        /\ pc[r].h = "done" /\ pc[r].m = "done") =>
          /\ Cardinality(EntriesOf(r)) = 1
          /\ \A i \in EntriesOf(r) :
                /\ logCalls[i].IsStreaming
                /\ ~logCalls[i].IsComplete
                /\ logCalls[i].Error = (IF cause[r] = "client" THEN "CLIENT_DISCONNECT"
                                        ELSE "STREAM_TIMEOUT")

\* C11: for a streaming capturer with a positive limit M, after successful
\* writes of T bytes in all the mirror holds the first min(T, M) bytes of
\* the forwarded stream, TruncatedAtBytes is T, and Body is the mirror,
\* followed by the truncation marker exactly when truncated is set
MirrorIsPrefix ==
    \A r \in Requests :
       (kind[r] = "streaming" /\ rc[r].maxSize > 0 /\ ~rc[r].writeErr /\ ~Writing(r)) =>
          /\ rc[r].body = SubSeq(client[r], 1, Min(Len(client[r]), rc[r].maxSize))
          /\ client[r] = upstream[r]
          /\ rc[r].currentSize = Len(upstream[r])
          /\ Body(rc[r]) = BytesToString(SubSeq(upstream[r], 1, Min(Len(upstream[r]), rc[r].maxSize)))
                              \o (IF rc[r].truncated THEN TruncationMarker ELSE "")
          /\ (pc[r].h = "cb_log" \/ pc[r].m = "cb_log") =>
                 /\ snap[r].truncatedAt <= Len(upstream[r])
                 /\ snap[r].truncated => Len(upstream[r]) >= rc[r].maxSize

\* a write that straddles the limit was mirrored in part: 4 bytes written,
\* the first 3 mirrored, truncated set
MirrorIsPrefixWitness ==
    \E r \in Requests :
       /\ kind[r] = "streaming" /\ ~rc[r].writeErr /\ ~Writing(r)
       /\ nWrites[r] = 2
       /\ Len(upstream[r]) = MaxAuditBodySize + 1
       /\ Len(rc[r].body) = MaxAuditBodySize
       /\ rc[r].truncated
       /\ rc[r].currentSize = MaxAuditBodySize + 1

\* the status ServeHTTP is to answer with itself, path by path: 400 for an
\* empty endpoint segment, 404 for an endpoint the configuration does not
\* name, 500 for a target that is no URL, 400 for a body that cannot be read
ExpectedReply(q) ==
    IF q.path \in {<<>>, <<"/">>, <<"/", "/", "c">>} THEN 400
    ELSE IF q.path = <<"/", "u", "/", "c">> THEN 404
    ELSE IF q.path = <<"/", "b", "/", "c">> THEN 500
    ELSE IF ~q.bodyOK THEN 400
    ELSE 0

\* the requests holding a sequence number
Reserved == {r \in Requests : seqID[r] # -1}

\* C12: a request the handler rejects itself (400, 404, 500) is not handed
\* to the reverse proxy, gets no capturer, no sequence number and no audit
\* entry, and the sequence numbers of the other requests are 0, 1, 2, ...
RejectedLeavesNoTrace ==
    /\ \A r \in Requests :
          req[r].arrived =>
             /\ reply[r] = ExpectedReply(req[r])
             /\ reply[r] # 0 =>
                   /\ r \notin proxied
                   /\ seqID[r] = -1
                   /\ pc[r] = [h |-> "done", m |-> "none"]
                   /\ upstream[r] = <<>> /\ cbRuns[r] = 0 /\ finCalls[r] = 0
    /\ {seqID[r] : r \in Reserved} = 0..(Cardinality(Reserved) - 1)
    /\ nextSequenceID = Cardinality(Reserved)
    /\ Len(logCalls) <= Cardinality(Reserved)
    /\ \A i \in DOMAIN logCalls : \E r \in Reserved : logCalls[i].SequenceID = seqID[r]

\* a request was answered 404 and another one, served through the proxy,
\* holds sequence number 0 and has its entry logged
RejectedLeavesNoTraceWitness ==
    \E r1, r2 \in Requests :
       /\ reply[r1] = 404 /\ pc[r1].h = "done"
       /\ reply[r2] = 0 /\ r2 \in proxied /\ pc[r2].h = "done"
       /\ seqID[r2] = 0
       /\ EntriesOf(r2) # {}

(***************************************************************************)
(* Stream reconstruction.                                                  *)
(***************************************************************************)
ParsedEvents(body) == {i \in 1..Len(body) : body[i].kind = "data" /\ body[i].parses}

\* the concatenation of the content deltas of a body, in order
RECURSIVE ContentOf(_)
ContentOf(body) ==
    IF body = <<>> THEN ""
    ELSE LET l == body[Len(body)]
         IN  ContentOf(SubSeq(body, 1, Len(body) - 1))
                \o (IF l.kind = "data" /\ l.parses THEN l.ev.content ELSE "")

OnlyContentDeltas(body) ==
    /\ ParsedEvents(body) # {}
    /\ \A i \in 1..Len(body) : body[i] \in {BlankLine, DoneLine} \cup
                                            {DataLine(ev) : ev \in ContentEvents}

\* C14: for a stream whose events carry only content deltas with
\* concatenation S (S empty included), the reconstructed message content
\* is S and chunks_received is the number of parsed events
ContentRoundTrip ==
    (sse.state = "returned" /\ OnlyContentDeltas(sse.body)) =>
        /\ sse.result.reconstructed
        /\ sse.result.message.contentKind = "string"
        /\ sse.result.message.content = ContentOf(sse.body)
        /\ sse.result.metadata.present
        /\ sse.result.metadata.chunks_received = Cardinality(ParsedEvents(sse.body))

\* C18: a body with no parseable event (no "data: " line, only the
\* terminator, or only payloads that do not parse) comes back unchanged,
\* with no metadata
NoEventsUnchanged ==
    (sse.state = "returned" /\ ParsedEvents(sse.body) = {}) =>
        /\ ~sse.result.reconstructed
        /\ sse.result.body = sse.body
        /\ ~sse.result.metadata.present

NoEventsUnchangedWitness ==
    /\ sse.state = "returned"
    /\ ParsedEvents(sse.body) = {}
    /\ \E i, j \in 1..Len(sse.body) : sse.body[i] = BadDataLine /\ sse.body[j] = DoneLine
    /\ sse.result.body = sse.body
    /\ ~sse.result.metadata.present

(***************************************************************************)
(* Header sanitisation.                                                    *)
(***************************************************************************)
\* the mask of one value, as the rules state it
ExpectedMask(v) ==
    CASE v = <<>> -> Empty
      [] v # <<>> /\ (HasPrefix(v, BearerPrefix) \/ HasPrefix(v, bearerPrefix)) ->
            IF Len(v) - 7 <= 8 THEN BearerPrefix \o Redacted
            ELSE BearerPrefix \o <<v[8], v[9], v[10]>> \o Ellipsis
                    \o <<v[Len(v) - 3], v[Len(v) - 2], v[Len(v) - 1], v[Len(v)]>>
      [] OTHER ->
            IF Len(v) <= 8 THEN Redacted
            ELSE <<v[1], v[2], v[3]>> \o Ellipsis
                    \o <<v[Len(v) - 3], v[Len(v) - 2], v[Len(v) - 1], v[Len(v)]>>

IsSensitive(k) == \E n \in sensitiveHeaders :
    Len(n) = Len(k) /\ \A i \in 1..Len(k) : ToLowerChar(k[i]) = n[i]

\* C15: the sanitised map has the names of the input and as many values
\* per name; the values of the eight sensitive names, in any case, are
\* replaced one by one by their mask, all other values are unchanged, and
\* the input map is as it was
SanitizedHeaders ==
    san.state = "returned" =>
        /\ DOMAIN san.sanitized = DOMAIN san.given
        /\ \A k \in DOMAIN san.given :
              /\ Len(san.sanitized[k]) = Len(san.given[k])
              /\ \A i \in 1..Len(san.given[k]) :
                    san.sanitized[k][i] = IF IsSensitive(k)
                                          THEN ExpectedMask(san.given[k][i])
                                          ELSE san.given[k][i]
        /\ san.headers = san.given

SanitizedHeadersWitness ==
    /\ san.state = "returned"
    /\ \E k \in DOMAIN san.given :
          /\ IsSensitive(k) /\ k \notin sensitiveHeaders
          /\ Len(san.given[k]) = 2
          /\ san.given[k][1] = Token(9)
          /\ san.sanitized[k][1] = <<"s", "k", "-">> \o Ellipsis \o <<"c", "d", "e", "f">>
          /\ san.given[k][2] = bearerPrefix \o Token(9)
          /\ san.sanitized[k][2] = BearerPrefix \o <<"s", "k", "-">> \o Ellipsis
                                        \o <<"c", "d", "e", "f">>

(***************************************************************************)
(* Media extraction.                                                       *)
(***************************************************************************)
\* the matches that are to be extracted: large enough, decodable, saved
ToExtract(m) == {i \in 1..Len(m.body) :
                    /\ ((m.body[i].n * 3) \div 4) \div 1024 >= m.minSizeKB
                    /\ DecodeOK(m.body[i])
                    /\ m.saveOK[i]}

\* C16: with extraction enabled a match is extracted exactly when its
\* estimated size reaches min_size_kb, its payload decodes and its file is
\* saved; the extracted matches carry the placeholders 0, 1, ... in match
\* order, one media reference each, and every other match is in the body
\* as it came
ExtractionPlaceholders ==
    (med.state = "returned" /\ med.enabled) =>
        LET ex == ToExtract(med)
            rank(i) == Cardinality({j \in ex : j < i})
        IN  /\ Len(med.references) = Cardinality(ex)
            /\ \A k \in 1..Len(med.references) :
                  /\ med.references[k].Placeholder = k - 1
                  /\ med.references[k].match \in ex
                  /\ rank(med.references[k].match) = k - 1
            /\ \A i \in 1..Len(med.body) :
                  med.modifiedBody[i] = IF i \in ex THEN Placeholder(rank(i), 0)
                                        ELSE Inline(med.body[i])

(***************************************************************************)
(* Span classification.                                                    *)
(***************************************************************************)
\* the response has choices[0].message.tool_calls[0]
HasToolCall(resp) == resp.json /\ Len(resp.choices) > 0 /\ Len(resp.choices[1]) > 0

\* the request has a message of role tool with a tool_call_id
HasToolResult(r) == r.json /\ \E i \in 1..Len(r.messages) :
                        r.messages[i].role = "tool" /\ r.messages[i].tool_call_id # ""

ExpectedSpanType(r, resp) ==
    IF HasToolCall(resp) THEN "TOOL_CALL"
    ELSE IF HasToolResult(r) THEN "TOOL_RESULT"
    ELSE IF resp.json /\ Len(resp.choices) > 0 THEN "FINAL_RESPONSE"
    ELSE "AGENT_THINKING"

\* C17: the span type is that of the first rule that matches, in the order
\* TOOL_CALL, TOOL_RESULT, FINAL_RESPONSE, AGENT_THINKING; tool_call is set
\* only on TOOL_CALL spans and tool_result only on TOOL_RESULT spans, never
\* both
SpanClassification ==
    (trc.state = "returned" /\ trc.trace.present) =>
        /\ trc.trace.SpanType = ExpectedSpanType(trc.requestBody, trc.responseBody)
        /\ DetermineSpanType(trc.requestBody, trc.responseBody) = trc.trace.SpanType
        /\ trc.trace.ToolCall.present <=> trc.trace.SpanType = "TOOL_CALL"
        /\ trc.trace.ToolResult.present <=> trc.trace.SpanType = "TOOL_RESULT"
        /\ ~(trc.trace.ToolCall.present /\ trc.trace.ToolResult.present)

(***************************************************************************)
(* The chain under write failures.                                         *)
(***************************************************************************)
\* the hash of the last entry before write i whose storage.Write returned
\* without error, the genesis hash when there is none
LastWrittenHash(i) ==
    LET S == {j \in DOMAIN writes : j < i /\ writes[j].ok}
    IN  IF S = {} THEN Sha256("genesis:" \o GenesisSeed)
        ELSE writes[CHOOSE j \in S : \A k \in S : k <= j].entry.Hash

WritesOfLine(line) == {k \in DOMAIN writes : writes[k].entry.SequenceID = line.SequenceID}

\* C19 (as claimed): every entry line of the journal file carries as
\* prev_hash the hash of the line immediately before it in the file
OnDiskPredecessor ==
    \A i \in DOMAIN journal :
        (i > 1 /\ journal[i].kind = "json") =>
            /\ journal[i - 1].kind = "json"
            /\ journal[i].PrevHash = journal[i - 1].Hash

\* C19 (amended): every entry line of the journal file carries as prev_hash
\* the hash of the last entry whose write succeeded before it (the genesis
\* hash when there is none), which is the line immediately before it when
\* that line is an entry whose write succeeded
OnDiskChain ==
    \A i \in DOMAIN journal :
        journal[i].kind = "json" =>
            /\ WritesOfLine(journal[i]) # {}
            /\ \A k \in WritesOfLine(journal[i]) :
                  journal[i].PrevHash = LastWrittenHash(k)
            /\ (i > 1 /\ journal[i - 1].kind = "json"
                      /\ \A k \in WritesOfLine(journal[i - 1]) : writes[k].ok)
                  => journal[i].PrevHash = journal[i - 1].Hash

\* C19 witness: an entry line that follows the complete line of an entry
\* whose fsync failed, and points at the line before that one
OnDiskChainWitness ==
    \E i \in DOMAIN journal :
        /\ i > 2
        /\ journal[i].kind = "json" /\ journal[i - 1].kind = "json"
        /\ journal[i - 2].kind = "json"
        /\ \E k \in WritesOfLine(journal[i - 1]) : ~writes[k].ok
        /\ journal[i].PrevHash = journal[i - 2].Hash
        /\ journal[i].PrevHash # journal[i - 1].Hash

\* C20: an entry whose storage.Write fails is passed to storage once only,
\* the worker's prev_hash stays as it was, and the entry processed next
\* carries the hash of the last entry written with success (the genesis
\* hash when there is none); after Shutdown every logged entry has been
\* processed
WriteFailureSkips ==
    /\ \A i \in DOMAIN writes :
          ~writes[i].ok =>
              /\ Cardinality({j \in DOMAIN writes : WrittenSeqs[j] = WrittenSeqs[i]}) = 1
              /\ i = Len(writes) => prevHash = writes[i].entry.PrevHash
              /\ i < Len(writes) =>
                    /\ writes[i + 1].entry.PrevHash = writes[i].entry.PrevHash
                    /\ writes[i + 1].entry.PrevHash = LastWrittenHash(i + 1)
    /\ done => \A s \in logged : \E i \in DOMAIN writes : WrittenSeqs[i] = s

\* C20 witness: a failed write between two successful ones, the later one
\* chained to the earlier one
WriteFailureSkipsWitness ==
    /\ done
    /\ \E i \in DOMAIN writes :
          /\ i > 1 /\ i < Len(writes)
          /\ writes[i - 1].ok /\ ~writes[i].ok /\ writes[i + 1].ok
          /\ writes[i + 1].entry.PrevHash = writes[i - 1].entry.Hash
          /\ prevHash = writes[Len(writes)].entry.Hash


(***************************************************************************)
(* The worker's handling of an entry that is not the expected one.         *)
(***************************************************************************)
\* the step passes the received entry, and nothing else, to storage
WritesReceived ==
    /\ Len(writes') = Len(writes) + 1
    /\ writes'[Len(writes')].entry.SequenceID = inHand[1].SequenceID
    /\ \A i \in DOMAIN writes : writes'[i] = writes[i]

\* the step is the worker's handling of the entry it has received
HandlesReceived == loopAt = "body" /\ loopAt' # "body"

\* C21: an entry received with a sequence number below expectedSeq is written
\* in the step that handles it and expectedSeq does not decrease; expectedSeq
\* never decreases in any step of the worker
LowerSeqWrittenNoRewind ==
    [][/\ expectedSeq' >= expectedSeq
       /\ (HandlesReceived /\ inHand[1].SequenceID < expectedSeq) => WritesReceived]_vars

\* a state in which the worker is about to handle a received entry whose
\* sequence number is below expectedSeq
LowerSeqReceivable ==
    /\ loopAt = "body"
    /\ ~done
    /\ inHand[1].SequenceID < expectedSeq

\* C22: an entry received with a sequence number above expectedSeq is written
\* at once when pending holds MaxPendingEntries entries, expectedSeq becoming
\* its number plus one and pending staying as it was; with fewer entries
\* pending it is put into pending, nothing is written and expectedSeq stays
OutOfOrderFrame ==
    [][(HandlesReceived /\ inHand[1].SequenceID > expectedSeq) =>
          IF Cardinality(DOMAIN pendingEntries) >= MaxPendingEntries
          THEN /\ WritesReceived
               /\ writes'[Len(writes')].how = "failopen"
               /\ expectedSeq' = inHand[1].SequenceID + 1
               /\ pendingEntries' = pendingEntries
          ELSE /\ pendingEntries' = MapPut(pendingEntries, inHand[1].SequenceID,
                                           inHand[1])
               /\ inHand[1].SequenceID \notin DOMAIN pendingEntries
               /\ writes' = writes
               /\ journal' = journal
               /\ expectedSeq' = expectedSeq]_vars

\* C22 witness: both branches have been taken: MaxPendingEntries entries wait
\* in pending, all above expectedSeq when they came, and one more entry above
\* expectedSeq was written at once
OutOfOrderFrameWitness ==
    /\ Cardinality(DOMAIN pendingEntries) = MaxPendingEntries
    /\ Len(writes) = 1
    /\ writes[1].how = "failopen"
    /\ expectedSeq = writes[1].entry.SequenceID + 1
    /\ \A s \in DOMAIN pendingEntries : s < writes[1].entry.SequenceID /\ s > 0

\* C23: a write whose sequence number is below that of an earlier write is a
\* fail-open write or a shutdown-drain write; every other write is above all
\* the writes before it
DescendingOnlyFailOpenOrShutdown ==
    \A i, j \in DOMAIN writes :
        (i < j /\ WrittenSeqs[j] < WrittenSeqs[i]) =>
            writes[j].how \in {"failopen", "shutdown"}

\* C30: whenever the worker has finished handling the entries it received,
\* each sequence number held in pending is above expectedSeq
PendingAboveExpected ==
    AtReceive => \A s \in DOMAIN pendingEntries : s > expectedSeq

(***************************************************************************)
(* The journal across a restart of the process.                            *)
(***************************************************************************)
\* C25: a restart keeps every line the journal already has, and when the
\* journal had entries the first entry written after the restart carries the
\* hash of the last line that was in the file
RestartContinuesChain ==
    /\ [](\A n \in 1..Len(closes) :
            (closes[n] > 0 /\ Len(journal) > closes[n]) =>
                journal[closes[n] + 1].PrevHash = journal[closes[n]].Hash)
    /\ [][Len(journal') >= Len(journal)
          /\ \A i \in DOMAIN journal : journal'[i] = journal[i]]_vars

\* the process was started again on a journal that has entries and has
\* written an entry since
WrittenAfterRestart ==
    /\ Len(closes) = 1
    /\ closes[1] > 0
    /\ Len(journal) > closes[1]

(***************************************************************************)
(* The handler's sequence numbers and the entries that carry them.         *)
(***************************************************************************)
\* C24: every routed request, regular or streaming, holds its sequence
\* number from the moment it is handed to the reverse proxy: the number is
\* reserved on arrival and not when the response has ended
ReservedOnArrival ==
    \A r \in Requests : r \in proxied => seqID[r] # -1

\* a regular and a streaming request are both being forwarded
BothKindsForwarded ==
    \E r1, r2 \in Requests :
       /\ kind[r1] = "streaming" /\ kind[r2] = "regular"
       /\ pc[r1].h = "proxy" /\ pc[r2].h = "proxy"
       /\ r1 \in proxied /\ r2 \in proxied

\* C26: every streaming request that has got its capturer has its completion
\* callback run in the end, whether the upstream ends, the client
\* disconnects, the stream timer fires, a forwarding write fails, the
\* forwarding panics or the monitoring task faults
CallbackEventuallyRuns ==
    \A r \in FaultyRequests :
       (kind[r] = "streaming" /\ seqID[r] # -1) ~> (cbRuns[r] = 1)

\* the forwarding ended without Complete() and without a write error,
\* the monitoring task faulted, and its recovery was the one call of finalize
\* and ran the callback
CallbackAfterFaults ==
    \E r \in FaultyRequests :
       /\ kind[r] = "streaming"
       /\ mfault[r]
       /\ ~rc[r].writeErr
       /\ finCalls[r] = 1
       /\ cbRuns[r] = 1
       /\ pc[r].h = "done" /\ pc[r].m = "done"

\* C27: every sequence number the handler has reserved is carried by one
\* entry passed to Worker.Log in the end, and never by two, for regular and
\* streaming requests, also when the post-processing of the response faults
EveryReservationLogged ==
    /\ [](\A r \in Requests : seqID[r] # -1 => Cardinality(EntriesOf(r)) <= 1)
    /\ \A r \in Requests : (seqID[r] # -1) ~> (Cardinality(EntriesOf(r)) = 1)

\* a request holding a sequence number has returned, its goroutines
\* are done, and no entry carries the number
ReservationWithoutEntry ==
    \E r \in Requests :
       /\ seqID[r] # -1
       /\ pc[r].h = "done"
       /\ cbRuns[r] = (IF kind[r] = "streaming" THEN 1 ELSE 0)
       /\ EntriesOf(r) = {}

\* C28: an entry passed to Worker.Log is written to the journal in the end,
\* while the proxy keeps running, also when a lower sequence number was
\* reserved by a request that faulted and never reaches the worker
LoggedEventuallyWritten ==
    \A r \in Requests :
       (EntriesOf(r) # {}) ~> (\E i \in DOMAIN writes : WrittenSeqs[i] = seqID[r])

\* sequence number 0 belongs to a request that returned without an
\* entry, and the entry with number 1 has reached the worker
LaterEntryReceived ==
    \E r1, r2 \in Requests :
       /\ seqID[r1] = 0 /\ pc[r1].h = "done" /\ EntriesOf(r1) = {}
       /\ seqID[r2] = 1 /\ EntriesOf(r2) # {}
       /\ entries = <<>>

\* C29: every entry passed to Worker.Log for a streaming response has
\* is_complete = true exactly when its error is empty, however the monitoring
\* task, Complete() and the reads of the completion callback interleave
CompleteIffNoError ==
    \A i \in DOMAIN logCalls :
       logCalls[i].IsStreaming => (logCalls[i].IsComplete <=> logCalls[i].Error = "")

\* the monitoring task has recorded a cause while the callback, run by
\* the handler's Complete(), was reading the capturer, and the entry is logged
CallbackReadDuringMonitor ==
    \E r \in FaultyRequests :
       /\ kind[r] = "streaming"
       /\ EntriesOf(r) # {}
       /\ rc[r].errorMsg # "" /\ ~rc[r].isComplete
       /\ ~rc[r].writeErr /\ ~mfault[r]
       /\ pc[r].h = "done" /\ pc[r].m = "done"
       /\ cause[r] = "client"

(***************************************************************************)
(* The pending map, the capturer's mirror and the journal store.           *)
(***************************************************************************)
\* the entry under sequence number s has been passed to storage
Written(s) == \E i \in DOMAIN writes : WrittenSeqs[i] = s

\* the sequence numbers the range over the pending map at shutdown has yet
\* to visit
ToVisit == {inHand[i].SequenceID : i \in DOMAIN inHand}

\* C31 (as claimed; the code does otherwise inside its drains): pending
\* never holds more than MaxPendingEntries entries, and no entry held in
\* pending has been passed to storage
PendingNeverWritten ==
    /\ Cardinality(DOMAIN pendingEntries) <= MaxPendingEntries
    /\ \A s \in DOMAIN pendingEntries : ~Written(s)

\* C31 (amended): pending never holds more than MaxPendingEntries entries,
\* each under its own sequence number.  An entry held in pending has been
\* passed to storage in two places only, both inside the worker's critical
\* section: between the processEntry and the delete of a pass of the drain
\* loop (worker.go:84-85), where it is the entry at expectedSeq and the last
\* one written, and in the drain at shutdown, where the entries the range
\* has visited stay in the map until the map is replaced (worker.go:118-123)
PendingBoundedUnwritten ==
    /\ Cardinality(DOMAIN pendingEntries) <= MaxPendingEntries
    /\ \A s \in DOMAIN pendingEntries :
          /\ pendingEntries[s].SequenceID = s
          /\ Written(s) =>
                \/ /\ loopAt = "delete"
                   /\ s = expectedSeq
                   /\ WrittenSeqs[Len(writes)] = s
                \/ /\ loopAt = "shutdown"
                   /\ s \notin ToVisit
    /\ loopAt = "delete" => expectedSeq \in DOMAIN pendingEntries /\ Written(expectedSeq)
    /\ loopAt = "shutdown" =>
          \A s \in DOMAIN pendingEntries : Written(s) <=> s \notin ToVisit

\* C31 witness: the drain at shutdown ranges over a full pending map, one of
\* its entries written and still in the map, another yet to be written,
\* after a fail-open write
PendingWrittenAtShutdown ==
    /\ loopAt = "shutdown"
    /\ Cardinality(DOMAIN pendingEntries) = MaxPendingEntries
    /\ \E s \in DOMAIN pendingEntries : Written(s)
    /\ \E s \in DOMAIN pendingEntries : ~Written(s)
    /\ WritesHow("failopen") # {}

\* the tag Write records for the error of the client's writer
WriteErrorTag == "WRITE_ERROR: broken pipe"

\* C32: the Write whose forwarding fails appends nothing to the mirror,
\* leaves the byte counter, sets isComplete to false and the WRITE_ERROR tag,
\* calls finalize (the callback runs unless it has run) and returns the
\* error to the forwarding code
WriteErrorFrame ==
    /\ [][\A r \in Requests :
            (~rc[r].writeErr /\ rc'[r].writeErr) =>
               /\ rc'[r].body = rc[r].body
               /\ rc'[r].currentSize = rc[r].currentSize
               /\ rc'[r].truncated = rc[r].truncated
               /\ ~rc'[r].isComplete
               /\ rc'[r].errorMsg = WriteErrorTag
               /\ pc'[r].h = "finalize"
               /\ ret'[r].h = "abort"]_vars
    /\ [](\A r \in Requests :
            (rc[r].writeErr /\ pc[r].h # "finalize") =>
               /\ rc[r].completed
               /\ kind[r] = "streaming" => cbRuns[r] = 1)

\* C32 witness: after a Write that passed its data on, a Write failed when
\* the client had taken one byte of it: the byte is not in the mirror, and
\* the callback has run
WriteErrorAfterPartialForward ==
    \E r \in Requests :
       /\ kind[r] = "streaming"
       /\ rc[r].writeErr
       /\ rc[r].body # <<>>
       /\ Len(client[r]) = Len(rc[r].body) + 1
       /\ rc[r].currentSize = Len(rc[r].body)
       /\ cbRuns[r] = 1
       /\ pc[r].h = "abort"

\* C33: truncated is set exactly when more bytes were written than the
\* mirror's limit: a streaming response of exactly the limit is recorded
\* untruncated and without the marker, and the write that crosses the limit
\* sets truncated
TruncatedIffExceeds ==
    \A r \in Requests :
       (kind[r] = "streaming" /\ rc[r].maxSize > 0 /\ ~rc[r].writeErr /\ ~Writing(r)) =>
          /\ rc[r].truncated <=> rc[r].currentSize > rc[r].maxSize
          /\ rc[r].currentSize <= rc[r].maxSize => Body(rc[r]) = BytesToString(upstream[r])

\* a streaming response of exactly the limit has been written
ExactlyAtLimit ==
    \E r \in Requests :
       /\ kind[r] = "streaming"
       /\ ~rc[r].writeErr /\ ~Writing(r)
       /\ rc[r].currentSize = rc[r].maxSize
       /\ rc[r].body = upstream[r]

\* C34 (as claimed): the mirror of every capturer, of a regular response as
\* of a streaming one, holds at most MaxAuditBodySize bytes
MirrorBoundedForAll ==
    \A r \in Requests : Len(rc[r].body) <= MaxAuditBodySize

\* C34 (amended): the mirror of a streaming capturer with a positive limit
\* holds at most that many bytes; the capturer of a regular response has no
\* limit, is never truncated and mirrors every byte it has passed on
MirrorBoundedForStreaming ==
    \A r \in Requests :
       /\ rc[r].maxSize > 0 => Len(rc[r].body) <= rc[r].maxSize
       /\ (r \in proxied /\ kind[r] = "streaming") => rc[r].maxSize = MaxAuditBodySize
       /\ (r \in proxied /\ kind[r] # "streaming") =>
             /\ rc[r].maxSize = -1
             /\ ~rc[r].truncated
             /\ (~rc[r].writeErr /\ ~Writing(r)) => rc[r].body = upstream[r]

\* C34 witness: a streaming mirror stopped at the limit with more bytes
\* written
StreamingMirrorAtLimit ==
    \E r \in Requests :
       /\ kind[r] = "streaming"
       /\ Len(rc[r].body) = MaxAuditBodySize
       /\ rc[r].currentSize > MaxAuditBodySize

\* encoding/json with the tags `json:"truncated,omitempty"` and
\* `json:"truncated_at_bytes,omitempty"`: the keys of the two fields that the
\* journal line of an entry carries (a false flag and a zero count are left out)
TruncationKeys(entry) ==
    (IF entry.Truncated THEN {"truncated"} ELSE {}) \cup
    (IF entry.TruncatedAtBytes # 0 THEN {"truncated_at_bytes"} ELSE {})

\* C35: in every audit entry truncated_at_bytes is non-zero only when
\* truncated is true; an entry of an untruncated response has truncated =
\* false and truncated_at_bytes = 0, and its journal line carries neither key
TruncatedAtOnlyWhenTruncated ==
    \A i \in DOMAIN logCalls :
        /\ logCalls[i].TruncatedAtBytes # 0 => logCalls[i].Truncated
        /\ ~logCalls[i].Truncated => TruncationKeys(logCalls[i]) = {}

\* an entry of a complete streaming response that was not truncated has been
\* logged with a body below the limit
UntruncatedStreamLogged ==
    \E i \in DOMAIN logCalls :
        /\ logCalls[i].IsStreaming /\ logCalls[i].IsComplete
        /\ ~logCalls[i].Truncated /\ logCalls[i].Error = ""
        /\ logCalls[i].RespBody # ""

(***************************************************************************)
(* The journal file under concurrent calls of FileStorage.Write.           *)
(***************************************************************************)
NextStore ==
    \/ \E c \in Callers : StoreLock(c)
    \/ \E c \in Callers, ok \in BOOLEAN : StoreMarshal(c, ok)
    \/ \E c \in Callers, ok \in BOOLEAN : StoreWriteHead(c, ok)
    \/ \E c \in Callers, ok \in BOOLEAN : StoreWriteTail(c, ok)
    \/ \E c \in Callers, ok \in BOOLEAN : StoreSync(c, ok)

SpecStore == InitOrder /\ [][NextStore]_vars

\* the callers that are between Lock and Unlock
InWrite == {c \in Callers : fsCall[c].pc # "idle"}

\* the positions of the blocks of an entry in the file
BlocksOf(e) == {i \in DOMAIN fsFile : fsFile[i].entry = e}

\* block i starts a line that is one entry's complete record
CompleteLineAt(i) ==
    /\ fsFile[i].block = RecordHead
    /\ i < Len(fsFile)
    /\ fsFile[i + 1] = [entry |-> fsFile[i].entry, block |-> RecordTail]

\* C36 as claimed: a call returns success only after the complete record
\* with its newline is in the file and synced, and every line of the file is
\* the complete record of one entry (only the last line may be unfinished, so
\* no line holds bytes of two entries)
EveryLineOneEntry ==
    /\ \A x \in fsReturned :
          x.ok => \E i \in DOMAIN fsFile :
                     /\ fsFile[i].entry = x.entry
                     /\ CompleteLineAt(i) /\ i + 1 <= fsSynced
    /\ \A i \in DOMAIN fsFile :
          /\ fsFile[i].block = RecordHead => (CompleteLineAt(i) \/ i = Len(fsFile))
          /\ fsFile[i].block = RecordTail => (i > 1 /\ CompleteLineAt(i - 1))

\* C36: a call returns success only after the complete record with its
\* newline is in the file and synced; the calls are serialized by the mutex
\* (one caller at a time is inside Write, and the blocks of an entry are next
\* to each other in the file); a line that is not one entry's complete record
\* begins with the fragment of a call that returned an error
SerializedAppends ==
    /\ \A x \in fsReturned :
          x.ok => \E i \in DOMAIN fsFile :
                     /\ fsFile[i].entry = x.entry
                     /\ CompleteLineAt(i) /\ i + 1 <= fsSynced
    /\ Cardinality(InWrite) <= 1
    /\ \A c \in Callers : (c \in InWrite) <=> (fsMu = c)
    /\ \A i \in DOMAIN fsFile :
          /\ fsFile[i].block = RecordTail =>
                i > 1 /\ fsFile[i - 1] = [entry |-> fsFile[i].entry, block |-> RecordHead]
          /\ (fsFile[i].block = RecordHead /\ ~CompleteLineAt(i)) =>
                \/ [entry |-> fsFile[i].entry, ok |-> FALSE] \in fsReturned
                \/ i = Len(fsFile) /\ \E c \in InWrite : fsCall[c].entry = fsFile[i].entry
    /\ \A e \in 1..MaxStoreCalls : Cardinality(BlocksOf(e)) <= 2

\* two calls have returned success around a call whose file write failed,
\* and the fragment it left is followed by the next record
FragmentBetweenRecords ==
    \E i \in DOMAIN fsFile :
        /\ i > 2 /\ i + 2 <= Len(fsFile)
        /\ fsFile[i].block = RecordHead /\ ~CompleteLineAt(i)
        /\ CompleteLineAt(i - 2) /\ CompleteLineAt(i + 1)
        /\ \A e \in {fsFile[i - 2].entry, fsFile[i + 1].entry} :
              [entry |-> e, ok |-> TRUE] \in fsReturned
        /\ fsMu = 0

(***************************************************************************)
(* The verifier on parts of a journal and on journals of another seed.     *)
(***************************************************************************)
\* a seed other than the configured one
OtherSeed == "other"

\* NewWorker (worker.go:36-52) with the given genesis seed, on an empty
\* journal file or started again on the file of the runs before
NewWorker(seed, file, written) ==
    [expectedSeq |-> 0, pendingEntries |-> <<>>, prevHash |-> computeGenesisHash(seed),
     writes |-> written, journal |-> file, loopAt |-> "range"]

\* The runs of the worker so far with another genesis seed: the same entries
\* are passed to processEntry in the same order, the store fails on the same
\* entries, and the worker is started again where it was (a write that
\* follows a call of storage.Close is the first of a new run).  The result
\* is the worker after the first n calls.
RECURSIVE RunsOfSeed(_, _)
RunsOfSeed(seed, n) ==
    IF n = 0 THEN NewWorker(seed, <<>>, <<>>)
    ELSE LET before == RunsOfSeed(seed, n - 1)
             w == IF \E k \in DOMAIN closes : closes[k] = n - 1
                  THEN NewWorker(seed, before.journal, before.writes)
                  ELSE before
         IN  processEntry(w, [writes[n].entry EXCEPT !.PrevHash = "", !.Hash = ""],
                          writes[n].how)

\* the journal file the runs of the worker leave with the given genesis seed
JournalOfSeed(seed) == RunsOfSeed(seed, Len(writes)).journal

\* files of at most MaxJournalLines lines, and runs of the worker that pass
\* at most MaxJournalLines entries to the store
MaxJournalLines == 5

\* no line has been put into the file the verifier scans
FileIdle == vfile = <<>> /\ verifier = VerifierStart

\* the worker has not been used, and its store is one that does not fail
WorkerIdle ==
    /\ writes = <<>> /\ entries = <<>> /\ logged = {} /\ ~chanClosed
    /\ \A q \in SeqIDs : faults[q] = "ok"

\* the verifier on a file put together line by line, or on the journal of a
\* worker whose producers log in sequence, one entry after the worker has
\* handled the one before, whose store may fail and which is shut down and
\* started again (the pending map stays empty, so that the drain loop and
\* the range over the map at shutdown find no entry)
NextTrim ==
    \/ \E line \in NextLines(verifier) :
          WorkerIdle /\ Len(vfile) < MaxJournalLines /\ ScanLine(line)
    \/ WorkerIdle /\ ScanEOF
    \/ \E p \in payloads :
          /\ FileIdle
          /\ Cardinality(logged) \in SeqIDs
          /\ Len(writes) < MaxJournalLines
          /\ entries = <<>> /\ inHand = <<>> /\ loopAt = "range"
          /\ Log(Cardinality(logged), p)
    \/ WorkerReceive
    \/ WorkerHandle
    \/ WorkerDrain
    \/ FileIdle /\ Shutdown
    \/ WorkerRangeEnds
    \/ WorkerClearPending
    \/ WorkerCloseStorage
    \/ WorkerExit
    \/ Restart

InitTrim ==
    /\ InitWorker
    /\ faults \in {f \in [SeqIDs -> FaultKinds] :
                        Cardinality({q \in SeqIDs : f[q] # "ok"}) <= MaxFaults}
    /\ payloads = {"plain", "binary"}
    /\ InitTamper
    /\ InitVerifier
    /\ InitStream
    /\ InitStore
    /\ InitMedia
    /\ InitPure

SpecTrim == InitTrim /\ [][NextTrim]_vars

\* every part of the file that is left when leading and trailing lines are
\* removed makes the verifier exit with ExitSuccess
EveryPartVerifies(file) ==
    \A i \in 0..Len(file) : \A j \in i..Len(file) :
        verifyLog(SubSeq(file, i + 1, j)) = ExitSuccess

\* C37: when the verifier exits with ExitSuccess on a file, it exits with
\* ExitSuccess on the file without any number of its leading and of its
\* trailing lines; and its exit code on the journal of a worker is its exit
\* code on the journal the worker writes for the same entries when it is
\* started from the genesis hash of another seed
TrimmedStillVerifies ==
    /\ verifier.exit = ExitSuccess => EveryPartVerifies(vfile)
    /\ verifyLog(journal) = ExitSuccess => EveryPartVerifies(journal)
    /\ JournalOfSeed(GenesisSeed) = journal
    /\ verifyLog(JournalOfSeed(OtherSeed)) = verifyLog(journal)

\* the worker has written, with one failed write, a journal of three chained
\* entries behind an unparseable line that the verifier accepts, and with
\* another seed it writes another file
SeededJournalVerified ==
    /\ done
    /\ verifyLog(journal) = ExitSuccess
    /\ Cardinality(ParsedLines(journal)) >= 3
    /\ Len(journal) > Cardinality(ParsedLines(journal))
    /\ JournalOfSeed(OtherSeed) # journal

(***************************************************************************)
(* Tool calls and the terminator line in the reconstruction.               *)
(***************************************************************************)
\* the concatenation of the tool_calls of the deltas of a body, in order
RECURSIVE ToolCallsOf(_)
ToolCallsOf(body) ==
    IF body = <<>> THEN <<>>
    ELSE LET l == body[Len(body)]
         IN  ToolCallsOf(SubSeq(body, 1, Len(body) - 1))
                \o (IF l.kind = "data" /\ l.parses /\ l.ev.choices = "object" /\ l.ev.delta
                    THEN l.ev.toolCalls ELSE <<>>)

\* C38: whenever a delta of the stream carries tool_calls, the reconstructed
\* message has content = null and the tool_calls of all deltas in arrival
\* order, also when some deltas carry non-empty content
ToolCallsNullContent ==
    (/\ sse.state = "returned"
     /\ ~sse.result.panic
     /\ ToolCallsOf(sse.body) # <<>>)
    => /\ sse.result.reconstructed
       /\ sse.result.message.contentKind = "null"
       /\ sse.result.message.toolCalls = ToolCallsOf(sse.body)

\* a stream of a content delta and a tool call delta has been reconstructed
ContentAndToolCallsReturned ==
    /\ sse.state = "returned"
    /\ ~sse.result.panic
    /\ ToolCallsOf(sse.body) # <<>>
    /\ ContentOf(sse.body) # ""

\* the lines of a body before its first "data: [DONE]" line
RECURSIVE BeforeDone(_)
BeforeDone(body) ==
    IF body = <<>> \/ Head(body) = DoneLine THEN <<>>
    ELSE <<Head(body)>> \o BeforeDone(Tail(body))

\* C39 as claimed: parsing stops at the first "data: [DONE]" line: the
\* events after it are not counted in chunks_received and do not contribute
\* to the reconstructed message
ParsingStopsAtDone ==
    /\ sse.state = "parsing" =>
          sse.chunks = parseSSEChunks(BeforeDone(SubSeq(sse.body, 1, sse.pos - 1)))
    /\ sse.state = "returned" =>
          /\ sse.result.metadata.present =>
                sse.result.metadata.chunks_received =
                    Cardinality(ParsedEvents(BeforeDone(sse.body)))
          /\ ~sse.result.panic =>
                sse.result.message = reconstructStreamResponse(BeforeDone(sse.body)).message

\* a body with a parseable event after its "data: [DONE]" line has been
\* reconstructed
EventAfterDoneReturned ==
    /\ sse.state = "returned"
    /\ \E i \in ParsedEvents(sse.body) : i > Len(BeforeDone(sse.body))

\* a body without its "data: [DONE]" lines
RECURSIVE WithoutDone(_)
WithoutDone(body) ==
    IF body = <<>> THEN <<>>
    ELSE (IF Head(body) = DoneLine THEN <<>> ELSE <<Head(body)>>) \o WithoutDone(Tail(body))

\* the payloads of the "data: " lines of a body that parse, in order
RECURSIVE EventsOf(_)
EventsOf(body) ==
    IF body = <<>> THEN <<>>
    ELSE (IF Head(body).kind = "data" /\ Head(body).parses THEN <<Head(body).ev>> ELSE <<>>)
            \o EventsOf(Tail(body))

\* C39: a "data: [DONE]" line is skipped and parsing goes on: the chunks are
\* the payloads of all "data: " lines that parse, before and after it;
\* chunks_received counts them all, and the result is the result for the
\* body without its "data: [DONE]" lines
ParsingSkipsDone ==
    /\ sse.state = "parsing" =>
          sse.chunks = EventsOf(WithoutDone(SubSeq(sse.body, 1, sse.pos - 1)))
    /\ sse.state = "returned" =>
          /\ sse.result.metadata.present <=> EventsOf(WithoutDone(sse.body)) # <<>>
          /\ sse.result.metadata.present =>
                sse.result.metadata.chunks_received = Len(EventsOf(WithoutDone(sse.body)))
          /\ ~sse.result.panic =>
                sse.result.message = reconstructStreamResponse(WithoutDone(sse.body)).message

(***************************************************************************)
(* Media files over the life of the storage directory.                     *)
(***************************************************************************)
NextMedia ==
    \/ \E q \in MediaRequests, b \in ExchangeImages : MediaReserve(q, b.req, b.resp, "png")
    \/ \E q \in MediaRequests, outcome \in SaveOutcomes : HandleMedia(q, outcome)
    \/ MediaRestart
    \/ DayPasses

SpecMedia == InitOrder /\ [][NextMedia]_vars

\* C40: a media file, once written, is never overwritten or modified: within
\* a run and across restarts of the proxy no extraction writes to a path that
\* an earlier extraction wrote to
MediaWrittenOnce == [][\A f \in mediaDir : f.complete => f \in mediaDir']_vars

\* until the proxy is started again, no file that saveMedia has written is
\* replaced, whatever requests run at the same time and whichever saves fail
WrittenOnceInARun ==
    [][mediaRun = 0 => \A f \in mediaDir : f.complete => f \in mediaDir']_vars

\* an image whose save failed half-way has left a file, and the next image
\* of the body has been saved under the same index in its place
SavedOverFragment ==
    \E f \in mediaDir :
        /\ f.complete /\ f.path.index = 0 /\ f.data[4] = 1
        /\ f.data[1] = 0 /\ mediaRun = 0

\* the images of one body lie in the directories of two dates
BodyOverTwoDates ==
    \E f, g \in mediaDir :
        /\ f.complete /\ g.complete
        /\ f.data[1] = g.data[1] /\ f.path.seq = g.path.seq
        /\ f.path.bodyType = g.path.bodyType
        /\ f.path.date # g.path.date

\* after a restart the directory holds files of both runs, of request and
\* response bodies and with an index above zero
FilesOfTwoRuns ==
    /\ mediaRun = 1
    /\ \E f, g \in mediaDir :
          /\ f.data[1] = 0 /\ g.data[1] = 1
          /\ f.path.bodyType = "request" /\ g.path.bodyType = "response"
          /\ f.path.index > 0


============================================================================
